---- MODULE Spec2Model ----
(***************************************************************************)
(* Game-theory simulation engine: the zustand game store (simulation       *)
(* controller, strategy selector, step pipeline) and the analysis          *)
(* functions of utils/gameTheory.ts.                                        *)
(*                                                                          *)
(* Strategy names are Chinese strings in the source; they are transcribed   *)
(* here to ASCII strings, one distinct string per distinct source string:   *)
(*   hezuo=cooperate, beipan=defect, an_anniu=press, dengdai=wait,          *)
(*   gao_chanliang/di_chanliang=high/low output, touzi/bu_touzi=invest/not, *)
(*   jinru/bu_jinru=enter/stay out, tanbai=confess, dilai=deny, ...         *)
(* A payoff-matrix key "a,b" (comma join, player order) is the tuple        *)
(* <<a, b>>; an absent object key (undefined) is an absent function key.    *)
(***************************************************************************)
EXTENDS Integers, Sequences, FiniteSets, TLC

VARIABLES
    selectedModelId,  \* GameStore.selectedModelId (Null = null)
    isRunning,        \* simulationState.isRunning
    results,          \* simulationState.results
    currentStep,      \* simulationState.currentStep
    tickers,          \* number of setInterval timers not yet cleared
    lastOp,           \* the store operation / timer callback that ran last
    gm,               \* pure-function checks: the GameModel argument
    call,             \* pure-function checks: the function applied and its arguments
    ret               \* pure-function checks: the value returned

vars == <<selectedModelId, isRunning, results, currentStep, tickers, lastOp, gm, call, ret>>

ctlVars == <<selectedModelId, isRunning, results, currentStep, tickers, lastOp>>
pureVars == <<gm, call, ret>>

----------------------------------------------------------------------------
(* Bounds of the model *)

\* cap applied to every model's recommendedRounds.max (source values 10..25)
MaxRounds == 6
\* most interval timers alive at once
MaxTickers == 2

----------------------------------------------------------------------------
(* JavaScript values *)

Null == "null"
Undefined == "undefined"
\* an object without keys: {}
EmptyObj == [k \in {} |-> 0]

Min(a, b) == IF a <= b THEN a ELSE b

\* obj[key], with Undefined for an absent key
Get(obj, key) == IF key \in DOMAIN obj THEN obj[key] ELSE Undefined
Has(obj, key) == key \in DOMAIN obj

\* array.slice(-n)
SliceLast(s, n) == IF Len(s) <= n THEN s ELSE SubSeq(s, Len(s) - n + 1, Len(s))

\* array.indexOf(x), 0-based, -1 when absent
IndexOf(s, x) ==
    IF \E i \in 1..Len(s) : s[i] = x
    THEN (CHOOSE i \in 1..Len(s) : s[i] = x /\ \A j \in 1..(i - 1) : s[j] # x) - 1
    ELSE -1

----------------------------------------------------------------------------
(* types/gameTheory.ts *)

COMPLETE_STATIC == "COMPLETE_STATIC"
COMPLETE_DYNAMIC == "COMPLETE_DYNAMIC"
INCOMPLETE_STATIC == "INCOMPLETE_STATIC"
INCOMPLETE_DYNAMIC == "INCOMPLETE_DYNAMIC"

Player(id, strategies) == [id |-> id, strategies |-> strategies]

\* a 2x2 payoff matrix from its four entries, keyed by the strategy pair
Matrix2(p1, p2, e00, e01, e10, e11) ==
    (<<p1.strategies[1], p2.strategies[1]>> :> e00) @@
    (<<p1.strategies[1], p2.strategies[2]>> :> e01) @@
    (<<p1.strategies[2], p2.strategies[1]>> :> e10) @@
    (<<p1.strategies[2], p2.strategies[2]>> :> e11)

Model2(id, type, p1, p2, e00, e01, e10, e11, rmin, rmax) ==
    [id |-> id, type |-> type, players |-> <<p1, p2>>,
     payoffMatrix |-> Matrix2(p1, p2, e00, e01, e10, e11),
     recommendedRounds |-> [min |-> rmin, max |-> rmax]]

PrisonersDilemma ==
    Model2("prisoners-dilemma", COMPLETE_STATIC,
           Player("1", <<"hezuo", "beipan">>), Player("2", <<"hezuo", "beipan">>),
           <<-1, -1>>, <<-3, 0>>, <<0, -3>>, <<-2, -2>>, 10, 20)

SmartPig ==
    Model2("smart-pig", COMPLETE_STATIC,
           Player("1", <<"an_anniu", "dengdai">>), Player("2", <<"an_anniu", "dengdai">>),
           <<2, 2>>, <<1, 4>>, <<4, 1>>, <<0, 0>>, 15, 25)

Stackelberg ==
    Model2("stackelberg", COMPLETE_DYNAMIC,
           Player("1", <<"gao_chanliang", "di_chanliang">>),
           Player("2", <<"gao_chanliang", "di_chanliang">>),
           <<3, 1>>, <<5, 2>>, <<2, 3>>, <<4, 4>>, 8, 15)

EntryDeterrenceComplete ==
    Model2("entry-deterrence-complete", COMPLETE_DYNAMIC,
           Player("1", <<"touzi", "bu_touzi">>), Player("2", <<"jinru", "bu_jinru">>),
           <<-1, -1>>, <<1, 0>>, <<0, 2>>, <<2, 0>>, 5, 10)

EntryDeterrenceIncomplete ==
    Model2("entry-deterrence-incomplete", INCOMPLETE_STATIC,
           Player("1", <<"touzi", "bu_touzi">>), Player("2", <<"jinru", "bu_jinru">>),
           <<-1, -1>>, <<1, 0>>, <<0, 2>>, <<2, 0>>, 12, 20)

InsuranceMarket ==
    Model2("insurance-market", INCOMPLETE_STATIC,
           Player("1", <<"gao_baofei", "di_baofei">>), Player("2", <<"goumai", "bu_goumai">>),
           <<2, 1>>, <<0, 2>>, <<1, 2>>, <<0, 1>>, 15, 25)

SignalingGame ==
    Model2("signaling-game", INCOMPLETE_DYNAMIC,
           Player("1", <<"gao_jiaoyu", "di_jiaoyu">>), Player("2", <<"gaoxin", "dixin">>),
           <<3, 2>>, <<0, 1>>, <<4, -1>>, <<2, 1>>, 15, 20)

CLASSIC_MODELS ==
    <<PrisonersDilemma, SmartPig, Stackelberg, EntryDeterrenceComplete,
      EntryDeterrenceIncomplete, InsuranceMarket, SignalingGame>>

\* CLASSIC_MODELS.find(m => m.id === id): the index of the model, 0 when none
FindModelIndex(id) ==
    IF \E i \in 1..Len(CLASSIC_MODELS) : CLASSIC_MODELS[i].id = id
    THEN CHOOSE i \in 1..Len(CLASSIC_MODELS) :
            CLASSIC_MODELS[i].id = id /\ \A j \in 1..(i - 1) : CLASSIC_MODELS[j].id # id
    ELSE 0

HasModel(id) == FindModelIndex(id) # 0
FindModel(id) == CLASSIC_MODELS[FindModelIndex(id)]

\* model.recommendedRounds.max, capped by the bound MaxRounds
RoundsMax(model) == Min(model.recommendedRounds.max, MaxRounds)

\* model.players.map(p => choices[p.id]).join(','): the payoff-matrix key
ChoicesKey(model, choices) ==
    [i \in 1..Len(model.players) |->
        IF Has(choices, model.players[i].id) THEN choices[model.players[i].id] ELSE ""]

\* model.players.indexOf(player) / findIndex(p => p.id === playerId), 1-based, 0 when absent
PlayerIndex(model, playerId) ==
    IF \E i \in 1..Len(model.players) : model.players[i].id = playerId
    THEN CHOOSE i \in 1..Len(model.players) :
            model.players[i].id = playerId /\ \A j \in 1..(i - 1) : model.players[j].id # playerId
    ELSE 0

----------------------------------------------------------------------------
(* Values a JavaScript function hands back: a number, undefined, or a thrown
   TypeError (reading a property of undefined). *)

Num(n) == [tag |-> "num", n |-> n]
Undef == [tag |-> "undefined", n |-> 0]
Thrown == [tag |-> "throw", n |-> 0]

IsNum(v) == v.tag = "num"

\* model.players[i] for a 0-based i: is there such a player
HasPlayerAt(model, i) == i >= 0 /\ i < Len(model.players)
PlayerAt(model, i) == model.players[i + 1]

\* the key `${mine},${theirs}` or `${theirs},${mine}` by the player's position
PairKey(playerIndex, mine, theirs) ==
    IF playerIndex = 0 THEN <<mine, theirs>> ELSE <<theirs, mine>>

\* model.payoffMatrix[key]: is the entry there, and is its element i (0-based) there
HasEntry(model, key) == key \in DOMAIN model.payoffMatrix
HasPayoff(model, key, i) ==
    HasEntry(model, key) /\ i >= 0 /\ i < Len(model.payoffMatrix[key])
Payoff(model, key, i) == model.payoffMatrix[key][i + 1]

\* the first element of a sequence of "ok" / "fail" / "throw" that is not "ok"
FirstNotOk(s) ==
    IF \A n \in 1..Len(s) : s[n] = "ok" THEN "ok"
    ELSE s[CHOOSE n \in 1..Len(s) : s[n] # "ok" /\ \A q \in 1..(n - 1) : s[q] = "ok"]

----------------------------------------------------------------------------
(* store/gameStore.ts: findDominantStrategy *)

\* the comparison of strategies i and j against opponent strategy k (lines 468-480):
\* "fail" when payoff(i) <= payoff(j), "throw" when a matrix entry is missing,
\* "ok" otherwise (a comparison with an undefined element is false)
DomCell_store(model, playerIndex, i, j, k) ==
    LET player == PlayerAt(model, playerIndex)
        opponent == PlayerAt(model, 1 - playerIndex)
        c1 == PairKey(playerIndex, player.strategies[i + 1], opponent.strategies[k + 1])
        c2 == PairKey(playerIndex, player.strategies[j + 1], opponent.strategies[k + 1])
    IN  IF ~HasEntry(model, c1) \/ ~HasEntry(model, c2) THEN "throw"
        ELSE IF HasPayoff(model, c1, playerIndex) /\ HasPayoff(model, c2, playerIndex)
                /\ Payoff(model, c1, playerIndex) <= Payoff(model, c2, playerIndex)
             THEN "fail"
             ELSE "ok"

\* the loop over k for one pair (i, j); reading opponent.strategies throws when
\* there is no opponent
DomPair_store(model, playerIndex, i, j) ==
    IF i = j THEN "ok"
    ELSE IF ~HasPlayerAt(model, 1 - playerIndex) THEN "throw"
    ELSE LET nOpp == Len(PlayerAt(model, 1 - playerIndex).strategies)
         IN  FirstNotOk([k \in 1..nOpp |-> DomCell_store(model, playerIndex, i, j, k - 1)])

\* the loop over j for one candidate i
DomRow_store(model, playerIndex, i) ==
    LET n == Len(PlayerAt(model, playerIndex).strategies)
    IN  FirstNotOk([j \in 1..n |-> DomPair_store(model, playerIndex, i, j - 1)])

findDominantStrategy_store(model, playerId) ==
    LET playerIndex == PlayerIndex(model, playerId) - 1
    IN  IF playerIndex = -1 THEN Undef
        ELSE LET n == Len(PlayerAt(model, playerIndex).strategies)
                 rows == [i \in 1..n |-> DomRow_store(model, playerIndex, i - 1)]
             IN  IF \A i \in 1..n : rows[i] = "fail" THEN Undef
                 ELSE LET first == CHOOSE i \in 1..n :
                                      rows[i] # "fail" /\ \A q \in 1..(i - 1) : rows[q] = "fail"
                      IN  IF rows[first] = "throw" THEN Thrown ELSE Num(first - 1)

----------------------------------------------------------------------------
(* store/gameStore.ts: calculateBestResponse, calculateMixedEquilibrium,
   calculateFollowerResponse, calculateStrategyChoice.  Math.random() is a
   nondeterministic draw: an operator returns the set of values the call can
   return. *)

\* Math.floor(Math.random() * n): 0 for n = 0, otherwise any of 0..n-1
RandomIndex(n) == IF n = 0 THEN {0} ELSE 0..(n - 1)

calculateBestResponse_store(model, playerId, opponentStrategy) ==
    LET playerIndex == PlayerIndex(model, playerId) - 1
    IN  IF playerIndex = -1 THEN {Num(0)}
        ELSE LET player == PlayerAt(model, playerIndex)
                 n == Len(player.strategies)
                 key(i) == PairKey(playerIndex, player.strategies[i + 1], opponentStrategy)
                 \* strategies whose payoff is a number (the others count as -Infinity)
                 valid == {i \in 0..(n - 1) : HasPayoff(model, key(i), playerIndex)}
                 best == {i \in valid : \A j \in valid :
                            Payoff(model, key(i), playerIndex) >= Payoff(model, key(j), playerIndex)}
             IN  IF n = 0 \/ valid = {} THEN {Num(0)}
                 ELSE {Num(i) : i \in best}

\* whether calculateMixedEquilibrium returns a pair (lines 562-594); every pair it
\* returns has p1 and p2 strictly between 0 and 1
MixedEquilibriumDefined_store(model) ==
    /\ Len(model.players) >= 2
    /\ Len(model.players[1].strategies) = 2
    /\ Len(model.players[2].strategies) = 2
    /\ \A a \in 1..2 : \A b \in 1..2 :
          HasEntry(model, <<model.players[1].strategies[a], model.players[2].strategies[b]>>)

calculateFollowerResponse_store(model, leaderChoice) ==
    IF ~HasPlayerAt(model, 1) THEN Thrown
    ELSE IF model.id = "entry-deterrence-complete"
    THEN (IF leaderChoice = "touzi" THEN Num(1) ELSE Num(0))
    ELSE LET follower == PlayerAt(model, 1)
             n == Len(follower.strategies)
             key(i) == <<leaderChoice, follower.strategies[i + 1]>>
             valid == {i \in 0..(n - 1) : HasPayoff(model, key(i), 1)}
         IN  IF \E i \in 0..(n - 1) : ~HasEntry(model, key(i)) THEN Thrown
             ELSE IF valid = {} THEN Num(0)
             ELSE Num(CHOOSE i \in valid :
                        /\ \A j \in valid : Payoff(model, key(i), 1) >= Payoff(model, key(j), 1)
                        /\ \A j \in valid : j < i => Payoff(model, key(j), 1) < Payoff(model, key(i), 1))

\* store.simulationState.results[results.length - 1]?.playerChoices[id]
LastChoice(rs, id) ==
    IF Len(rs) = 0 THEN Undefined ELSE Get(rs[Len(rs)].playerChoices, id)

\* lines 679-704: the dominant strategy with exploration, else a best response
GenericChoice_store(model, playerId, rs) ==
    LET dominantStrategy == findDominantStrategy_store(model, playerId)
        own == IF playerId = "1" THEN 0 ELSE 1
        opp == IF playerId = "1" THEN 1 ELSE 0
    IN  IF dominantStrategy = Thrown THEN {Thrown}
        ELSE IF IsNum(dominantStrategy)
        THEN {dominantStrategy} \cup
             (IF HasPlayerAt(model, own)
              THEN {Num(i) : i \in RandomIndex(Len(PlayerAt(model, own).strategies))}
              ELSE {Thrown})
        ELSE IF ~HasPlayerAt(model, opp) THEN {Num(0)}
        ELSE LET opponent == PlayerAt(model, opp)
                 nOpp == Len(opponent.strategies)
                 \* the opponent's last strategy, or a random one without history
                 lastSet == IF Len(rs) > 0 THEN {LastChoice(rs, opponent.id)}
                            ELSE IF nOpp = 0 THEN {Undefined}
                            ELSE {opponent.strategies[i + 1] : i \in 0..(nOpp - 1)}
             IN  UNION {IF s = Undefined
                        THEN {Num(i) : i \in RandomIndex(nOpp)}
                        ELSE calculateBestResponse_store(model, playerId, s) : s \in lastSet}

calculateStrategyChoice_store(model, playerId, step, rs) ==
    IF model.id = "entry-deterrence-complete"
    THEN (IF playerId = "1" THEN {Num(0)}
          ELSE IF LastChoice(rs, "1") = "touzi" THEN {Num(1)} ELSE {Num(0)})
    ELSE IF model.id = "smart-pig" /\ MixedEquilibriumDefined_store(model)
    THEN {Num(0), Num(1)}
    ELSE GenericChoice_store(model, playerId, rs)

----------------------------------------------------------------------------
(* store/gameStore.ts: belief update and the incomplete-information helpers.
   A probability is a fraction <<numerator, denominator>>. *)

\* -Infinity, and NaN (arithmetic on undefined)
NegInfinity == [tag |-> "-Infinity", n |-> 0]
NaN == [tag |-> "NaN", n |-> 0]

Abs(x) == IF x >= 0 THEN x ELSE -x

RECURSIVE SumSeq(_)
\* array.reduce((a, b) => a + b, 0)
SumSeq(s) == IF Len(s) = 0 THEN 0 ELSE s[1] + SumSeq(Tail(s))

\* the strategy names of a player as a set
StrategySet(player) == {player.strategies[i] : i \in 1..Len(player.strategies)}

\* a belief update that carries the beliefs stored in the last record forward
updateEntryDeterrenceBeliefs_store_carried(model, rs) ==
    IF Len(rs) > 0 /\ rs[Len(rs)].beliefs # EmptyObj THEN rs[Len(rs)].beliefs
    ELSE [id \in {model.players[i].id : i \in 1..Len(model.players)} |->
             LET player == model.players[PlayerIndex(model, id)]
             IN  [strategy \in StrategySet(player) |-> <<1, Len(player.strategies)>>]]

\* part_006 lines 865-886: per player, 1/n for each strategy without results (or
\* when no result holds one of the player's strategies), else count/total
updateEntryDeterrenceBeliefs_store(model, rs) ==
    LET ids == {model.players[i].id : i \in 1..Len(model.players)}
        beliefsOf(player) ==
            LET n == Len(player.strategies)
                count(strategy) ==
                    Cardinality({i \in 1..Len(rs) : Get(rs[i].playerChoices, player.id) = strategy})
                total == SumSeq([a \in 1..n |-> count(player.strategies[a])])
            IN  [strategy \in StrategySet(player) |->
                    IF Len(rs) = 0 \/ total = 0 THEN <<1, n>> ELSE <<count(strategy), total>>]
    IN  [id \in ids |-> beliefsOf(model.players[PlayerIndex(model, id)])]

\* an expected payoff summed over the opponent's element of each matrix entry
ExpectedPayoff_store_opponentElement(model, playerIndex, strategy, beliefs) ==
    IF ~HasPlayerAt(model, 1 - playerIndex) THEN Num(0)
    ELSE LET opponent == PlayerAt(model, 1 - playerIndex)
             nOpp == Len(opponent.strategies)
             key(k) == PairKey(playerIndex, strategy, opponent.strategies[k])
         IN  Num(SumSeq([k \in 1..nOpp |->
                    beliefs[opponent.id][opponent.strategies[k]][1]
                       * Payoff(model, key(k), 1 - playerIndex)]))

\* part_006 lines 791-808: the expected payoff of one strategy, as "throw", "NaN"
\* or the numerator of the sum over the opponent's strategies (the beliefs about
\* one opponent share their denominator)
ExpectedPayoff_store(model, playerIndex, strategy, beliefs) ==
    IF ~HasPlayerAt(model, 1 - playerIndex) THEN Num(0)
    ELSE LET opponent == PlayerAt(model, 1 - playerIndex)
             nOpp == Len(opponent.strategies)
             key(k) == PairKey(playerIndex, strategy, opponent.strategies[k])
         IN  IF nOpp = 0 THEN Num(0)
             ELSE IF ~Has(beliefs, opponent.id) THEN Thrown
             ELSE IF \E k \in 1..nOpp : ~HasEntry(model, key(k)) THEN Thrown
             ELSE IF \E k \in 1..nOpp :
                        \/ ~Has(beliefs[opponent.id], opponent.strategies[k])
                        \/ ~HasPayoff(model, key(k), playerIndex)
                  THEN NaN
             ELSE Num(SumSeq([k \in 1..nOpp |->
                        beliefs[opponent.id][opponent.strategies[k]][1]
                           * Payoff(model, key(k), playerIndex)]))

\* part_006 lines 778-811
calculateIncompleteInfoStrategy_store(model, playerId, beliefs, step) ==
    LET playerIndex == PlayerIndex(model, playerId) - 1
    IN  IF playerIndex = -1 THEN {Num(0)}
        ELSE LET player == PlayerAt(model, playerIndex)
                 n == Len(player.strategies)
                 expectedPayoffs ==
                     [a \in 1..n |-> ExpectedPayoff_store(model, playerIndex,
                                                          player.strategies[a], beliefs)]
             IN  IF step < 5 THEN {Num(i) : i \in RandomIndex(n)}
                 ELSE IF \E a \in 1..n : expectedPayoffs[a] = Thrown THEN {Thrown}
                 \* Math.max() of nothing is -Infinity, of a NaN is NaN: indexOf finds neither
                 ELSE IF n = 0 \/ \E a \in 1..n : expectedPayoffs[a] = NaN THEN {Num(-1)}
                 ELSE {Num((CHOOSE a \in 1..n :
                              /\ \A b \in 1..n : expectedPayoffs[a].n >= expectedPayoffs[b].n
                              /\ \A b \in 1..(a - 1) : expectedPayoffs[b].n < expectedPayoffs[a].n)
                           - 1)}

\* part_006 lines 826-835 and 853-862: the indices the loop
\*   cumulative += probabilities[i]; if (random <= cumulative) return i
\* can return for a random in [0, 1), and the final return 0; weights[i + 1] / unit
\* is probabilities[i]
CumulativeDraw(weights, unit) ==
    {0} \cup {i \in 1..(Len(weights) - 1) :
                /\ weights[i + 1] > 0
                /\ SumSeq(SubSeq(weights, 1, i)) < unit}

\* part_006 lines 813-836
calculateSignalingStrategy_store(model, senderType, step, beliefs) ==
    IF ~HasPlayerAt(model, 0) THEN {Thrown}
    ELSE LET n == Len(model.players[1].strategies)
             costFactor == IF senderType = "high" THEN 8 ELSE 2
         IN  IF step < 5 THEN {Num(i) : i \in RandomIndex(n)}
             \* with one strategy every probability is NaN (0 / 0)
             ELSE IF n <= 1 THEN {Num(0)}
             ELSE {Num(i) : i \in CumulativeDraw(
                      [a \in 1..n |-> Abs(10 * (a - 1) - costFactor * (n - 1))], 10 * (n - 1))}

\* part_006 lines 838-863
calculateReceiverResponse_store(model, signal, step, beliefs) ==
    IF ~HasPlayerAt(model, 1) THEN {Thrown}
    ELSE LET n0 == Len(model.players[1].strategies)
             n1 == Len(model.players[2].strategies)
             signalIndex == IndexOf(model.players[1].strategies, signal)
         IN  IF step < 5 THEN {Num(i) : i \in RandomIndex(n1)}
             \* signalStrength or normalizedIndex is NaN or infinite
             ELSE IF n0 <= 1 \/ n1 <= 1 THEN {Num(0)}
             ELSE {Num(i) : i \in CumulativeDraw(
                      [a \in 1..n1 |-> Abs((a - 1) * (n0 - 1) - signalIndex * (n1 - 1))],
                      (n0 - 1) * (n1 - 1))}

\* lines 888-909 repeat lines 865-886 word for word
updateSignalingBeliefs_store(model, rs) == updateEntryDeterrenceBeliefs_store(model, rs)

----------------------------------------------------------------------------
(* store/gameStore.ts: simulateStep.  A step returns a SimulationResult or
   throws; the operator returns the set of outcomes the call can have. *)

Result(step, playerChoices, payoffs) ==
    [step |-> step, playerChoices |-> playerChoices, payoffs |-> payoffs,
     beliefs |-> EmptyObj, signals |-> EmptyObj]

Returned(result) == [thrown |-> FALSE, result |-> result]
StepThrown == [thrown |-> TRUE, result |-> EmptyObj]

\* player.strategies[index]: Undefined when the index is out of range
StrategyAt(player, index) ==
    IF index >= 0 /\ index < Len(player.strategies) THEN player.strategies[index + 1]
    ELSE Undefined

\* a lookup that hands every player the first element of the entry
PayoffsFor_firstElement(model, key) ==
    IF ~HasEntry(model, key) THEN EmptyObj
    ELSE [id \in {model.players[i].id : i \in 1..Len(model.players)} |->
             Payoff(model, key, 0)]

\* model.players.forEach((player, index) => result.payoffs[player.id] = payoffs[index]),
\* skipped when the matrix has no entry for the key; an element the entry lacks
\* is recorded as undefined, i.e. as no payoff
PayoffsFor(model, key) ==
    IF ~HasEntry(model, key) THEN EmptyObj
    ELSE LET ids == {model.players[i].id : i \in {n \in 1..Len(model.players) :
                                                    HasPayoff(model, key, n - 1)}}
         IN  [id \in ids |-> Payoff(model, key, PlayerIndex(model, id) - 1)]

\* result.playerChoices after every player at positions 1..Len(names) was assigned
\* names[i]; an undefined strategy is recorded as no choice
ChoicesFor(model, names) ==
    LET ids == {model.players[i].id : i \in {n \in 1..Len(names) : names[n] # Undefined}}
    IN  [id \in ids |-> names[PlayerIndex(model, id)]]

\* case GameType.COMPLETE_STATIC (lines 262-280)
simulateStepStatic(model, step, rs) ==
    LET N == Len(model.players)
        choiceSet(i) == calculateStrategyChoice_store(model, model.players[i].id, step, rs)
        all == UNION {choiceSet(i) : i \in 1..N}
        picks == {f \in [1..N -> all] : \A i \in 1..N : f[i] \in choiceSet(i)}
        outcome(f) ==
            IF \E i \in 1..N : f[i] = Thrown THEN StepThrown
            ELSE LET names == [i \in 1..N |-> StrategyAt(model.players[i], f[i].n)]
                     \* strategies.join(','): an undefined element joins as ''
                     key == [i \in 1..N |-> IF names[i] = Undefined THEN "" ELSE names[i]]
                 IN  Returned(Result(step, ChoicesFor(model, names), PayoffsFor(model, key)))
    IN  {outcome(f) : f \in picks}

\* case GameType.COMPLETE_DYNAMIC (lines 282-322)
simulateStepDynamic(model, step, rs) ==
    IF Len(model.players) < 2 THEN {StepThrown}
    ELSE
    LET leader == model.players[1]
        follower == model.players[2]
        leaderSet == IF model.id = "entry-deterrence-complete" THEN {Num(0)}
                     ELSE calculateStrategyChoice_store(model, leader.id, step, rs)
        outcome(li) ==
            IF li = Thrown THEN StepThrown
            ELSE LET leaderStrategy == StrategyAt(leader, li.n)
                     fi == IF model.id = "entry-deterrence-complete"
                           THEN (IF leaderStrategy = "touzi" THEN Num(1) ELSE Num(0))
                           ELSE calculateFollowerResponse_store(model, leaderStrategy)
                 IN  IF fi = Thrown THEN StepThrown
                     ELSE LET followerStrategy == StrategyAt(follower, fi.n)
                              names == <<leaderStrategy, followerStrategy>>
                          IN  Returned(Result(step, ChoicesFor(model, names),
                                              PayoffsFor(model, names)))
    IN  {outcome(li) : li \in leaderSet}

\* a result with the beliefs and the signals the incomplete-information cases set
ResultWith(step, playerChoices, payoffs, beliefs, signals) ==
    [step |-> step, playerChoices |-> playerChoices, payoffs |-> payoffs,
     beliefs |-> beliefs, signals |-> signals]

\* lines 345-350: an index that is NaN or out of range, or a throw inside the
\* try block, becomes 0
EntrantIndex(v, n) ==
    IF IsNum(v) /\ v.n >= 0 /\ v.n < n THEN v.n ELSE 0

\* case GameType.INCOMPLETE_STATIC, entry-deterrence-incomplete (lines 325-366);
\* at step 0 the entrant is handed literal beliefs of 0.5, which
\* calculateIncompleteInfoStrategy does not read while step < 5
simulateStepEntryDeterrence(model, step, rs) ==
    IF Len(model.players) < 2 THEN {StepThrown}
    ELSE
    LET incumbent == model.players[1]
        entrant == model.players[2]
        beliefs == updateEntryDeterrenceBeliefs_store(model, rs)
        entrantSet ==
            {EntrantIndex(v, Len(entrant.strategies)) :
                v \in calculateIncompleteInfoStrategy_store(model, entrant.id, beliefs, step)}
        outcome(incumbentType, ei) ==
            LET incumbentStrategy ==
                    StrategyAt(incumbent, IndexOf(incumbent.strategies,
                        IF incumbentType = "strong" THEN "touzi" ELSE "bu_touzi"))
                names == <<incumbentStrategy, StrategyAt(entrant, ei)>>
            IN  Returned(ResultWith(step, ChoicesFor(model, names), PayoffsFor(model, names),
                                    beliefs, [incumbentType |-> incumbentType]))
    IN  {outcome(t, ei) : t \in {"strong", "weak"}, ei \in entrantSet}

\* case GameType.INCOMPLETE_STATIC, insurance-market (lines 367-392)
simulateStepInsurance(model, step, rs) ==
    IF Len(model.players) < 2 THEN {StepThrown}
    ELSE
    LET insurer == model.players[1]
        customer == model.players[2]
        beliefs == updateEntryDeterrenceBeliefs_store(model, rs)
        insurerSet == calculateIncompleteInfoStrategy_store(model, insurer.id, beliefs, step)
        customerSet == calculateIncompleteInfoStrategy_store(model, customer.id, beliefs, step)
        outcome(ii, ci) ==
            IF ii = Thrown \/ ci = Thrown THEN StepThrown
            ELSE LET names == <<StrategyAt(insurer, ii.n), StrategyAt(customer, ci.n)>>
                 IN  Returned(ResultWith(step, ChoicesFor(model, names),
                                         PayoffsFor(model, names), beliefs, EmptyObj))
    IN  {outcome(ii, ci) : ii \in insurerSet, ci \in customerSet}

\* case GameType.INCOMPLETE_DYNAMIC, signaling-game (lines 397-427)
simulateStepSignaling(model, step, rs) ==
    IF Len(model.players) < 2 THEN {StepThrown}
    ELSE
    LET sender == model.players[1]
        receiver == model.players[2]
        beliefs == updateSignalingBeliefs_store(model, rs)
        outcome(senderType, si) ==
            IF si = Thrown THEN {StepThrown}
            ELSE LET senderStrategy == StrategyAt(sender, si.n)
                     made(ri) ==
                         IF ri = Thrown THEN StepThrown
                         ELSE LET names == <<senderStrategy, StrategyAt(receiver, ri.n)>>
                              IN  Returned(ResultWith(step, ChoicesFor(model, names),
                                                      PayoffsFor(model, names), beliefs,
                                                      [senderType |-> senderType]))
                 IN  {made(ri) : ri \in calculateReceiverResponse_store(
                                            model, senderStrategy, step, beliefs)}
    IN  UNION {UNION {outcome(senderType, si) :
                         si \in calculateSignalingStrategy_store(model, senderType, step, beliefs)} :
                  senderType \in {"high", "low"}}

\* lines 248-440: the switch on model.type; a model of an incomplete-information
\* type under another id leaves the result empty
simulateStep_store(model, step, rs) ==
    CASE model.type = COMPLETE_STATIC -> simulateStepStatic(model, step, rs)
      [] model.type = COMPLETE_DYNAMIC -> simulateStepDynamic(model, step, rs)
      [] model.type = INCOMPLETE_STATIC /\ model.id = "entry-deterrence-incomplete" ->
            simulateStepEntryDeterrence(model, step, rs)
      [] model.type = INCOMPLETE_STATIC /\ model.id = "insurance-market" ->
            simulateStepInsurance(model, step, rs)
      [] model.type = INCOMPLETE_DYNAMIC /\ model.id = "signaling-game" ->
            simulateStepSignaling(model, step, rs)
      [] OTHER -> {Returned(ResultWith(step, EmptyObj, EmptyObj, EmptyObj, EmptyObj))}

----------------------------------------------------------------------------
(* store/gameStore.ts: the termination check of the interval callback *)

\* a stability test that compares only the two most recent results
IsStable_lastPair(model, recentResults) ==
    \A i \in 1..Len(model.players) :
        LET id == model.players[i].id
            n == Len(recentResults)
        IN  /\ n >= 2
            /\ Has(recentResults[n].playerChoices, id)
            /\ Has(recentResults[n - 1].playerChoices, id)
            /\ recentResults[n].playerChoices[id] = recentResults[n - 1].playerChoices[id]

\* lines 86-101: every player's choice is defined and the same in each
\* consecutive pair of the recent results
IsStable(model, recentResults) ==
    \A index \in 2..Len(recentResults) :
        \A i \in 1..Len(model.players) :
            LET id == model.players[i].id
            IN  /\ Has(recentResults[index].playerChoices, id)
                /\ Has(recentResults[index - 1].playerChoices, id)
                /\ recentResults[index].playerChoices[id] = recentResults[index - 1].playerChoices[id]

\* lines 106-128: no player has an alternative strategy whose matrix payoff
\* exceeds the payoff recorded in the last result
IsNashEquilibrium(model, lastResult) ==
    \A i \in 1..Len(model.players) :
        LET player == model.players[i]
        IN  /\ Has(lastResult.playerChoices, player.id)
            /\ Has(lastResult.payoffs, player.id)
            /\ \A a \in 1..Len(player.strategies) :
                  LET alternativeStrategy == player.strategies[a]
                      hypotheticalChoices ==
                          [id \in DOMAIN lastResult.playerChoices \cup {player.id} |->
                              IF id = player.id THEN alternativeStrategy
                              ELSE lastResult.playerChoices[id]]
                      choicesKey == ChoicesKey(model, hypotheticalChoices)
                  IN  \/ alternativeStrategy = lastResult.playerChoices[player.id]
                      \/ ~HasPayoff(model, choicesKey, i - 1)
                      \/ lastResult.payoffs[player.id] >= Payoff(model, choicesKey, i - 1)

\* results.length the termination check waits for (line 84) and slices (line 85)
StableWindow == 5

\* a termination check that forgets the equilibrium test
ShouldTerminate_stableOnly(model, rs) ==
    /\ Len(rs) >= StableWindow
    /\ IsStable(model, SliceLast(rs, StableWindow))

\* lines 84-141: at least 5 results, stable and a Nash equilibrium
ShouldTerminate(model, rs) ==
    /\ Len(rs) >= StableWindow
    /\ IsStable(model, SliceLast(rs, StableWindow))
    /\ IsNashEquilibrium(model, rs[Len(rs)])

----------------------------------------------------------------------------
(* store/gameStore.ts: the store and its operations *)

\* arguments of setSelectedModel: null, an id CLASSIC_MODELS does not hold,
\* and the ids of the two complete-information dynamic models
ModelIds ==
    {Null, "custom-model", "stackelberg", "entry-deterrence-complete"}

\* records of externally supplied results: the test's history record, two
\* stackelberg profiles, one without payoffs, one without choices
LoadRecords ==
    { Result(0, ("1" :> "tanbai") @@ ("2" :> "tanbai"), ("1" :> -8) @@ ("2" :> -8)),
      Result(0, ("1" :> "gao_chanliang") @@ ("2" :> "di_chanliang"), ("1" :> 5) @@ ("2" :> 2)),
      Result(0, ("1" :> "di_chanliang") @@ ("2" :> "di_chanliang"), ("1" :> 4) @@ ("2" :> 4)),
      Result(0, ("1" :> "gao_chanliang") @@ ("2" :> "di_chanliang"), EmptyObj),
      Result(0, EmptyObj, EmptyObj) }

LoadLengths == {0, 3, StableWindow, MaxRounds + 1}

\* arguments of loadSimulationResults: a record repeated, steps numbered from 0
LoadInputs ==
    {[i \in 1..n |-> [r EXCEPT !.step = i - 1]] : r \in LoadRecords, n \in LoadLengths}

Init ==
    /\ selectedModelId = Null
    /\ isRunning = FALSE
    /\ results = <<>>
    /\ currentStep = 0
    /\ tickers = 0
    /\ lastOp = "init"
    /\ gm = Null
    /\ call = Null
    /\ ret = Null

\* a reset that forgets the step counter
resetSimulation_keepsStep ==
    /\ isRunning' = FALSE
    /\ results' = <<>>
    /\ lastOp' = "resetSimulation"
    /\ UNCHANGED <<currentStep, selectedModelId, tickers, pureVars>>

\* lines 165-173
resetSimulation ==
    /\ isRunning' = FALSE
    /\ results' = <<>>
    /\ currentStep' = 0
    /\ lastOp' = "resetSimulation"
    /\ UNCHANGED <<selectedModelId, tickers, pureVars>>

\* a model change whose reset forgets the step counter
setSelectedModel_keepsStep(modelId) ==
    /\ selectedModelId' = modelId
    /\ isRunning' = FALSE
    /\ results' = <<>>
    /\ lastOp' = "setSelectedModel"
    /\ UNCHANGED <<currentStep, tickers, pureVars>>

\* lines 31-34: set the id, then resetSimulation()
setSelectedModel(modelId) ==
    /\ selectedModelId' = modelId
    /\ isRunning' = FALSE
    /\ results' = <<>>
    /\ currentStep' = 0
    /\ lastOp' = "setSelectedModel"
    /\ UNCHANGED <<tickers, pureVars>>

\* a start that never looks at the round limit
StartAtMax_never(model) == FALSE

\* line 43: model.recommendedRounds && currentStep >= model.recommendedRounds.max
StartAtMax(model) == currentStep >= RoundsMax(model)

\* a start that marks the run as Running without creating its timer
startSimulation_noTimer ==
    /\ lastOp' = "startSimulation"
    /\ isRunning' = (HasModel(selectedModelId) \/ isRunning)
    /\ UNCHANGED <<selectedModelId, results, currentStep, tickers, pureVars>>

\* lines 36-59 and the setInterval call of line 61: one more timer is alive
startSimulation ==
    /\ lastOp' = "startSimulation"
    /\ IF ~HasModel(selectedModelId)
       THEN UNCHANGED <<isRunning, tickers>>
       ELSE IF StartAtMax(FindModel(selectedModelId))
       THEN isRunning' = FALSE /\ UNCHANGED tickers
       ELSE tickers < MaxTickers /\ isRunning' = TRUE /\ tickers' = tickers + 1
    /\ UNCHANGED <<selectedModelId, results, currentStep, pureVars>>

\* a stop that also discards the results, as resetSimulation does
stopSimulation_clears ==
    /\ isRunning' = FALSE
    /\ results' = <<>>
    /\ currentStep' = 0
    /\ lastOp' = "stopSimulation"
    /\ UNCHANGED <<selectedModelId, tickers, pureVars>>

\* lines 156-163
stopSimulation ==
    /\ isRunning' = FALSE
    /\ lastOp' = "stopSimulation"
    /\ UNCHANGED <<selectedModelId, results, currentStep, tickers, pureVars>>

\* a load that leaves the step counter alone
loadSimulationResults_keepsStep(rs) ==
    /\ results' = rs
    /\ lastOp' = "loadSimulationResults"
    /\ UNCHANGED <<currentStep, selectedModelId, isRunning, tickers, pureVars>>

\* lines 236-244
loadSimulationResults(rs) ==
    /\ results' = rs
    /\ currentStep' = Len(rs)
    /\ lastOp' = "loadSimulationResults"
    /\ UNCHANGED <<selectedModelId, isRunning, tickers, pureVars>>

\* the return points of the interval callback, recorded in lastOp
TickExits == {"tick_cleared", "tick_max", "tick_equilibrium", "tick_append", "tick_throw"}

\* a callback that only looks for the model, not at isRunning
CallbackCancelled_modelOnly == ~HasModel(selectedModelId)

\* line 65: !currentModel || !currentStore.simulationState.isRunning
CallbackCancelled == ~HasModel(selectedModelId) \/ ~isRunning

\* a round-limit test that is off by one
TickAtMax_offByOne(model) == currentStep > RoundsMax(model)

\* lines 71-72: currentModel.recommendedRounds && currentStep >= recommendedRounds.max
TickAtMax(model) == currentStep >= RoundsMax(model)

\* lines 61-153: one run of the interval callback of a live timer
Tick ==
    /\ tickers > 0
    /\ UNCHANGED <<selectedModelId, pureVars>>
    /\ IF CallbackCancelled
       THEN \* lines 65-68: clearInterval; return
            /\ tickers' = tickers - 1
            /\ lastOp' = "tick_cleared"
            /\ UNCHANGED <<isRunning, results, currentStep>>
       ELSE LET currentModel == FindModel(selectedModelId)
                atMax == TickAtMax(currentModel)
            IN  IF atMax \/ ShouldTerminate(currentModel, results)
                THEN \* lines 71-81, 130-139: clearInterval; isRunning: false; return
                     /\ tickers' = tickers - 1
                     /\ isRunning' = FALSE
                     /\ lastOp' = IF atMax THEN "tick_max" ELSE "tick_equilibrium"
                     /\ UNCHANGED <<results, currentStep>>
                ELSE \* lines 144-152
                     \E o \in simulateStep_store(currentModel, currentStep, results) :
                        IF o.thrown
                        THEN /\ lastOp' = "tick_throw"
                             /\ UNCHANGED <<isRunning, results, currentStep, tickers>>
                        ELSE /\ results' = Append(results, o.result)
                             /\ currentStep' = currentStep + 1
                             /\ lastOp' = "tick_append"
                             /\ UNCHANGED <<isRunning, tickers>>

Next ==
    \/ \E modelId \in ModelIds : setSelectedModel(modelId)
    \/ startSimulation
    \/ stopSimulation
    \/ resetSimulation
    \/ \E rs \in LoadInputs : loadSimulationResults(rs)
    \/ Tick

Spec == Init /\ [][Next]_vars

\* the store without loadSimulationResults
NextNoLoad ==
    \/ \E modelId \in ModelIds : setSelectedModel(modelId)
    \/ startSimulation
    \/ stopSimulation
    \/ resetSimulation
    \/ Tick

SpecNoLoad == Init /\ [][NextNoLoad]_vars

----------------------------------------------------------------------------
(* The simulation controller: claims C1-C7 *)

SelectedModel == FindModel(selectedModelId)

\* C1 as stated: startSimulation with a classic model selected and isRunning
\* false leaves isRunning true, whatever currentStep and results are.
C1_StartAlwaysRuns ==
    [][(lastOp' = "startSimulation" /\ HasModel(selectedModelId) /\ ~isRunning)
          => isRunning']_vars

\* C1 amended: startSimulation with a classic model selected and isRunning false
\* leaves isRunning true exactly when currentStep is below the model's
\* recommendedRounds.max; at or above it isRunning stays false.
C1_StartRunsBelowMax ==
    [][(lastOp' = "startSimulation" /\ HasModel(selectedModelId) /\ ~isRunning)
          => (isRunning' <=> currentStep < RoundsMax(SelectedModel))]_vars

\* a start from Stopped, with results already there, that left the controller Running
C1_Witness ==
    /\ lastOp = "startSimulation"
    /\ isRunning
    /\ tickers = 1
    /\ Len(results) > 0

\* C2: stopSimulation sets isRunning to false and leaves results, currentStep
\* and selectedModelId as they were.
C2_StopKeepsResults ==
    [][lastOp' = "stopSimulation"
          => /\ isRunning' = FALSE
             /\ results' = results
             /\ currentStep' = currentStep
             /\ selectedModelId' = selectedModelId]_vars

\* a stop with results present and a timer still alive
C2_Witness ==
    /\ lastOp = "stopSimulation"
    /\ ~isRunning
    /\ Len(results) > 0
    /\ currentStep = Len(results)
    /\ tickers > 0

\* C3: resetSimulation yields results = <<>>, currentStep = 0, isRunning = FALSE,
\* and a record a tick appends to the emptied sequence has step 0.
C3_ResetRestartsAtZero ==
    /\ [][lastOp' = "resetSimulation"
             => (results' = <<>> /\ currentStep' = 0 /\ isRunning' = FALSE)]_vars
    /\ [][(lastOp' = "tick_append" /\ results = <<>>)
             => (Len(results') = 1 /\ results'[1].step = 0)]_vars

\* a reset while Running with a live timer
C3_Witness ==
    /\ lastOp = "resetSimulation"
    /\ tickers > 0
    /\ results = <<>>
    /\ currentStep = 0
    /\ ~isRunning

\* C4: while isRunning is false every tick leaves results and currentStep
\* unchanged: nothing is appended while the controller is not Running.
C4_NoAppendWhenStopped ==
    [][(lastOp' \in TickExits /\ ~isRunning)
          => (results' = results /\ currentStep' = currentStep)]_vars

\* a timer fired after a stop, below the round limit, while another timer lives
C4_Witness ==
    /\ lastOp = "tick_cleared"
    /\ HasModel(selectedModelId)
    /\ ~isRunning
    /\ Len(results) > 0
    /\ currentStep < RoundsMax(SelectedModel)
    /\ tickers > 0

\* C5: without loadSimulationResults, results.length and currentStep never
\* exceed the selected model's recommendedRounds.max, and a tick that finds
\* currentStep >= max sets isRunning to false and appends nothing.
C5_RoundsBounded ==
    /\ [](HasModel(selectedModelId)
             => (Len(results) <= RoundsMax(SelectedModel)
                 /\ currentStep <= RoundsMax(SelectedModel)))
    /\ [][(lastOp' \in TickExits /\ isRunning /\ HasModel(selectedModelId)
             /\ currentStep >= RoundsMax(SelectedModel))
             => (isRunning' = FALSE /\ results' = results /\ currentStep' = currentStep)]_vars

\* the round limit was hit by one timer while a second one is alive
C5_Witness ==
    /\ lastOp = "tick_max"
    /\ ~isRunning
    /\ currentStep = RoundsMax(SelectedModel)
    /\ Len(results) = RoundsMax(SelectedModel)
    /\ tickers > 0

\* the claim's own reading of "stable": every player has a choice in each of
\* the 5 most recent results and it is the same in all of them
C6_SameChoices(model, rs) ==
    LET recent == SliceLast(rs, 5)
    IN  \A i \in 1..Len(model.players) : \A a, b \in 1..Len(recent) :
            /\ Has(recent[a].playerChoices, model.players[i].id)
            /\ Has(recent[b].playerChoices, model.players[i].id)
            /\ recent[a].playerChoices[model.players[i].id]
                  = recent[b].playerChoices[model.players[i].id]

\* the claim's own reading of "Nash at the last result": every player has a
\* recorded payoff, and no other strategy of the player, the others' last
\* choices held fixed, has a strictly higher payoff in the matrix
C6_NoBetterDeviation(model, last) ==
    \A i \in 1..Len(model.players) :
        /\ Has(last.payoffs, model.players[i].id)
        /\ Has(last.playerChoices, model.players[i].id)
        /\ \A a \in 1..Len(model.players[i].strategies) :
              LET alt == model.players[i].strategies[a]
                  key == [q \in 1..Len(model.players) |->
                            IF q = i THEN alt
                            ELSE IF Has(last.playerChoices, model.players[q].id)
                                 THEN last.playerChoices[model.players[q].id] ELSE ""]
              IN  (alt # last.playerChoices[model.players[i].id]
                   /\ key \in DOMAIN model.payoffMatrix
                   /\ Len(model.payoffMatrix[key]) >= i)
                  => ~(model.payoffMatrix[key][i] > last.payoffs[model.players[i].id])

C6_AtEquilibrium ==
    /\ Len(results) >= 5
    /\ C6_SameChoices(SelectedModel, results)
    /\ C6_NoBetterDeviation(SelectedModel, results[Len(results)])

\* C6: a tick in the Running state with at least 5 results, the same choices in
\* the last 5 and no strictly better deviation at the last result sets isRunning
\* to false and appends nothing; every other Running tick below the round limit
\* appends exactly one result and adds 1 to currentStep.
C6_TerminationCheck ==
    /\ [][(lastOp' \in TickExits /\ isRunning /\ HasModel(selectedModelId) /\ C6_AtEquilibrium)
             => (isRunning' = FALSE /\ results' = results /\ currentStep' = currentStep)]_vars
    /\ [][(lastOp' \in TickExits /\ isRunning /\ HasModel(selectedModelId)
             /\ currentStep < RoundsMax(SelectedModel) /\ ~C6_AtEquilibrium)
             => (/\ Len(results') = Len(results) + 1
                 /\ SubSeq(results', 1, Len(results)) = results
                 /\ currentStep' = currentStep + 1)]_vars

\* a tick stopped the run below the round limit on a stable equilibrium
C6_Witness ==
    /\ lastOp = "tick_equilibrium"
    /\ ~isRunning
    /\ currentStep < RoundsMax(SelectedModel)
    /\ C6_AtEquilibrium

\* C7: loadSimulationResults(rs) sets results to rs and currentStep to the
\* length of rs and leaves isRunning and selectedModelId unchanged.
C7_LoadSetsResultsAndStep ==
    [][lastOp' = "loadSimulationResults"
          => /\ \E rs \in LoadInputs : results' = rs /\ currentStep' = Len(rs)
             /\ isRunning' = isRunning
             /\ selectedModelId' = selectedModelId]_vars

\* a load of three records over a running simulation with other results
C7_Witness ==
    /\ lastOp = "loadSimulationResults"
    /\ isRunning
    /\ Len(results) = 3
    /\ currentStep = 3

----------------------------------------------------------------------------
(* utils/gameTheory.ts: findDominantStrategy *)

\* the comparison that treats a tie as dominance
Beats_weak(model, playerIndex, i, j, opponentStrategy) ==
    LET player == PlayerAt(model, playerIndex)
        key1 == PairKey(playerIndex, player.strategies[i + 1], opponentStrategy)
        key2 == PairKey(playerIndex, player.strategies[j + 1], opponentStrategy)
    IN  ~(\/ ~HasEntry(model, key1)
          \/ ~HasEntry(model, key2)
          \/ /\ HasPayoff(model, key1, playerIndex)
             /\ HasPayoff(model, key2, playerIndex)
             /\ Payoff(model, key1, playerIndex) < Payoff(model, key2, playerIndex))

\* lines 30-40: the negation of
\*   !payoffs1 || !payoffs2 || payoffs1[playerIndex] <= payoffs2[playerIndex]
\* (a comparison with an undefined element is false)
Beats(model, playerIndex, i, j, opponentStrategy) ==
    LET player == PlayerAt(model, playerIndex)
        key1 == PairKey(playerIndex, player.strategies[i + 1], opponentStrategy)
        key2 == PairKey(playerIndex, player.strategies[j + 1], opponentStrategy)
    IN  ~(\/ ~HasEntry(model, key1)
          \/ ~HasEntry(model, key2)
          \/ /\ HasPayoff(model, key1, playerIndex)
             /\ HasPayoff(model, key2, playerIndex)
             /\ Payoff(model, key1, playerIndex) <= Payoff(model, key2, playerIndex))

\* lines 12-53; reading opponent.strategies (line 29) throws when the model has
\* no second player and the player has two strategies to compare
findDominantStrategy(model, playerId) ==
    LET playerIndex == PlayerIndex(model, playerId) - 1
    IN  IF playerIndex = -1 THEN Undef
        ELSE LET player == PlayerAt(model, playerIndex)
                 n == Len(player.strategies)
             IN  IF n = 0 THEN Undef
                 ELSE IF n = 1 THEN Num(0)
                 ELSE IF ~HasPlayerAt(model, 1 - playerIndex) THEN Thrown
                 ELSE LET opponent == PlayerAt(model, 1 - playerIndex)
                          isDominant(i) ==
                              \A j \in 0..(n - 1) : \A k \in 1..Len(opponent.strategies) :
                                  i # j => Beats(model, playerIndex, i, j, opponent.strategies[k])
                      IN  IF \E i \in 0..(n - 1) : isDominant(i)
                          THEN Num(CHOOSE i \in 0..(n - 1) :
                                      isDominant(i) /\ \A q \in 0..(i - 1) : ~isDominant(q))
                          ELSE Undef

----------------------------------------------------------------------------
(* Models the exported functions are applied to *)

\* payoffs of the generated models range over 0..MaxPayoff
MaxPayoff == 1

\* a GameModel literal without recommendedRounds, as the tests write them
GameModel(id, type, players, payoffMatrix) ==
    [id |-> id, type |-> type, players |-> players, payoffMatrix |-> payoffMatrix]

\* game.test.ts prisonersDilemmaModel and simulation.test.ts testModel
TestPrisonersDilemma ==
    LET p1 == Player("1", <<"tanbai", "dilai">>)
        p2 == Player("2", <<"tanbai", "dilai">>)
    IN  GameModel("prisoners-dilemma", COMPLETE_STATIC, <<p1, p2>>,
                  Matrix2(p1, p2, <<-8, -8>>, <<0, -10>>, <<-10, 0>>, <<-1, -1>>))

\* game.test.ts smartPigModel
TestSmartPig ==
    LET p1 == Player("1", <<"an_anniu", "dengdai">>)
        p2 == Player("2", <<"an_anniu", "dengdai">>)
    IN  GameModel("smart-pig", COMPLETE_STATIC, <<p1, p2>>,
                  Matrix2(p1, p2, <<5, 1>>, <<4, 4>>, <<9, -1>>, <<0, 0>>))

\* a player with the first n of three strategy names
GenPlayer(id, n) ==
    Player(id, SubSeq(IF id = "1" THEN <<"a0", "a1", "a2">> ELSE <<"b0", "b1", "b2">>, 1, n))

\* all keys "s1,s2" of two players
AllKeys(p1, p2) ==
    {<<p1.strategies[a], p2.strategies[b]>> :
        a \in 1..Len(p1.strategies), b \in 1..Len(p2.strategies)}

\* every complete matrix with both payoffs of each entry in 0..MaxPayoff
FullMatrices(p1, p2) ==
    [AllKeys(p1, p2) -> {<<x, y>> : x \in 0..MaxPayoff, y \in 0..MaxPayoff}]

\* every complete matrix whose entries are <<x, MaxPayoff - x>>
ConstantSumMatrices(p1, p2) ==
    {[key \in AllKeys(p1, p2) |-> <<f[key], MaxPayoff - f[key]>>] :
        f \in [AllKeys(p1, p2) -> 0..MaxPayoff]}

\* the constant-sum models of a shape <<n1, n2>> (numbers of strategies)
ConstantSumModels(id, type, shape) ==
    {GameModel(id, type, <<GenPlayer("1", shape[1]), GenPlayer("2", shape[2])>>, m) :
        m \in ConstantSumMatrices(GenPlayer("1", shape[1]), GenPlayer("2", shape[2]))}

\* two-player models with complete matrices: all 2x2 ones, and the
\* constant-sum ones of the shapes 1x2, 2x3 and 3x2
GeneratedModels(id, type) ==
    {GameModel(id, type, <<GenPlayer("1", 2), GenPlayer("2", 2)>>, m) :
        m \in FullMatrices(GenPlayer("1", 2), GenPlayer("2", 2))}
    \cup UNION {ConstantSumModels(id, type, shape) : shape \in {<<1, 2>>, <<2, 3>>, <<3, 2>>}}

NoCall == [fn |-> "none"]

\* the store stays in its initial state while an exported function is applied
StoreIdle ==
    /\ selectedModelId = Null
    /\ isRunning = FALSE
    /\ results = <<>>
    /\ currentStep = 0
    /\ tickers = 0
    /\ lastOp = "init"

DominantModels ==
    GeneratedModels("generated", COMPLETE_STATIC)
    \cup {PrisonersDilemma, TestPrisonersDilemma, TestSmartPig}

InitDominant ==
    /\ StoreIdle
    /\ gm \in DominantModels
    /\ call = NoCall
    /\ ret = Undef

\* findDominantStrategy(gm, playerId)
CallFindDominantStrategy(playerId) ==
    /\ call' = [fn |-> "findDominantStrategy", playerId |-> playerId]
    /\ ret' = findDominantStrategy(gm, playerId)
    /\ UNCHANGED <<ctlVars, gm>>

NextDominant == \E playerId \in {"1", "2"} : CallFindDominantStrategy(playerId)

SpecDominant == InitDominant /\ [][NextDominant]_vars

----------------------------------------------------------------------------
(* Dominant strategies: claim C9 *)

\* the payoff of player number p (1 or 2) when it plays its strategy i against
\* the opponent's strategy k (both 1-based), read from the matrix
C9_PayoffOf(model, p, i, k) ==
    IF p = 1
    THEN model.payoffMatrix[<<model.players[1].strategies[i], model.players[2].strategies[k]>>][1]
    ELSE model.payoffMatrix[<<model.players[1].strategies[k], model.players[2].strategies[i]>>][2]

\* strategy i of player p strictly exceeds every other strategy j of p against
\* every strategy k of the opponent
C9_StrictlyDominant(model, p, i) ==
    \A j \in 1..Len(model.players[p].strategies) :
        \A k \in 1..Len(model.players[3 - p].strategies) :
            j # i => C9_PayoffOf(model, p, i, k) > C9_PayoffOf(model, p, j, k)

\* C9: for a two-player model with a complete matrix, findDominantStrategy
\* returns i exactly when i is the smallest strictly dominant index of the
\* player and undefined when there is none; it returns 1 for both players of
\* the classic prisoners-dilemma, and for the test's smart-pig matrix undefined
\* for player 1 and 1 for player 2.
C9_DominantIsSmallestStrict ==
    call.fn = "findDominantStrategy" =>
        LET p == IF call.playerId = "1" THEN 1 ELSE 2
            n == Len(gm.players[p].strategies)
            dom == {i \in 1..n : C9_StrictlyDominant(gm, p, i)}
        IN  /\ \A i \in 1..n :
                  ret = Num(i - 1) <=> (i \in dom /\ \A q \in dom : i <= q)
            /\ ret = Undef <=> dom = {}
            /\ gm = PrisonersDilemma => ret = Num(1)
            /\ gm = TestSmartPig => ret = (IF p = 1 THEN Undef ELSE Num(1))

\* a player with three strategies whose last one is strictly dominant
C9_Witness ==
    /\ call.fn = "findDominantStrategy"
    /\ call.playerId = "1"
    /\ Len(gm.players[1].strategies) = 3
    /\ ret = Num(2)

----------------------------------------------------------------------------
(* utils/gameTheory.ts: analyzeGameResults *)

\* the equilibriumType strings (lines 559-590), transcribed:
\* weizhi = unknown, chun_celue_zhanyou_junheng = pure-strategy dominant
\* equilibrium, hunhe_celue_junheng = mixed-strategy equilibrium,
\* nashi_junheng = Nash equilibrium, ...
EQ_UNKNOWN == "weizhi"
EQ_PURE_DOMINANT == "chun_celue_zhanyou_junheng"
EQ_MIXED == "hunhe_celue_junheng"
EQ_NASH == "nashi_junheng"
EQ_STACKELBERG == "sitakeboge_junheng"
EQ_ENTRY_DETERRENCE == "wanquan_xinxi_shichang_jinru_zunao_junheng"
EQ_INSURANCE == "baoxian_shichang_beiyesi_junheng"
EQ_SIGNALING == "xinhao_chuandi_junheng"

\* lines 117-134: calculateMixedEquilibrium returns a pair (not undefined) for a
\* model with two players of two strategies each and all four matrix entries
MixedEquilibriumDefined(model) ==
    /\ Len(model.players) >= 2
    /\ Len(model.players[1].strategies) = 2
    /\ Len(model.players[2].strategies) = 2
    /\ \A a \in 1..2 : \A b \in 1..2 :
          HasEntry(model, <<model.players[1].strategies[a], model.players[2].strategies[b]>>)

\* a convergence test that forgets the minimum of 10 results
Convergence_noMinimum(model, rs) ==
    LET arr == SliceLast(rs, 10)
    IN  \A i \in 2..Len(arr) : \A q \in 1..Len(model.players) :
           Get(arr[i].playerChoices, model.players[q].id)
              = Get(arr[i - 1].playerChoices, model.players[q].id)

\* lines 552-557: at least 10 results and every player's choice (undefined
\* included) the same in each consecutive pair of the last 10
Convergence(model, rs) ==
    /\ Len(rs) >= 10
    /\ LET arr == SliceLast(rs, 10)
       IN  \A i \in 2..Len(arr) : \A q \in 1..Len(model.players) :
              Get(arr[i].playerChoices, model.players[q].id)
                 = Get(arr[i - 1].playerChoices, model.players[q].id)

\* an equilibrium type that takes a history that settled for a dominant one
EquilibriumType_convergenceFirst(model, dominantStrategies, mixedEquilibrium, convergence) ==
    IF model.type = COMPLETE_STATIC /\ model.id \in {"prisoners-dilemma", "smart-pig"}
    THEN (IF convergence THEN EQ_NASH
          ELSE IF \A i \in 1..Len(dominantStrategies) : dominantStrategies[i] # Undef
          THEN EQ_PURE_DOMINANT
          ELSE IF mixedEquilibrium THEN EQ_MIXED
          ELSE EQ_UNKNOWN)
    ELSE EQ_UNKNOWN

\* lines 559-592: the switch on model.type
EquilibriumType(model, dominantStrategies, mixedEquilibrium, convergence) ==
    CASE model.type = COMPLETE_STATIC ->
            IF model.id = "prisoners-dilemma" \/ model.id = "smart-pig"
            THEN (IF \A i \in 1..Len(dominantStrategies) : dominantStrategies[i] # Undef
                  THEN EQ_PURE_DOMINANT
                  ELSE IF mixedEquilibrium THEN EQ_MIXED
                  ELSE IF convergence THEN EQ_NASH
                  ELSE EQ_UNKNOWN)
            ELSE EQ_UNKNOWN
      [] model.type = COMPLETE_DYNAMIC ->
            IF model.id = "stackelberg" THEN EQ_STACKELBERG
            ELSE IF model.id = "entry-deterrence-complete" THEN EQ_ENTRY_DETERRENCE
            ELSE EQ_UNKNOWN
      [] model.type = INCOMPLETE_STATIC ->
            IF model.id = "insurance-market" THEN EQ_INSURANCE ELSE EQ_UNKNOWN
      [] model.type = INCOMPLETE_DYNAMIC ->
            IF model.id = "signaling-game" THEN EQ_SIGNALING ELSE EQ_UNKNOWN
      [] OTHER -> EQ_UNKNOWN

\* lines 609-622: the largest payoff of the player's other strategies against
\* the opponent's last choice; -Infinity without an opponent, a matrix entry or
\* another strategy, NaN when an entry lacks the player's element
MaxDeviationPayoff(model, playerIndex, lastResult) ==
    LET player == PlayerAt(model, playerIndex)
        currentStrategy == Get(lastResult.playerChoices, player.id)
        others == {a \in 1..Len(player.strategies) : player.strategies[a] # currentStrategy}
        key(a) == PairKey(playerIndex, player.strategies[a],
                          Get(lastResult.playerChoices, PlayerAt(model, 1 - playerIndex).id))
        found == IF HasPlayerAt(model, 1 - playerIndex)
                 THEN {a \in others : HasEntry(model, key(a))}
                 ELSE {}
    IN  IF \E a \in found : ~HasPayoff(model, key(a), playerIndex) THEN NaN
        ELSE IF found = {} THEN NegInfinity
        ELSE Num(CHOOSE x \in {Payoff(model, key(a), playerIndex) : a \in found} :
                    \A a \in found : x >= Payoff(model, key(a), playerIndex))

\* line 624: maxDeviationPayoff - currentPayoff
DeviationGain(model, playerIndex, lastResult) ==
    LET maxDeviationPayoff == MaxDeviationPayoff(model, playerIndex, lastResult)
        id == PlayerAt(model, playerIndex).id
    IN  IF maxDeviationPayoff = NaN \/ ~Has(lastResult.payoffs, id) THEN NaN
        ELSE IF maxDeviationPayoff = NegInfinity THEN NegInfinity
        ELSE Num(maxDeviationPayoff.n - lastResult.payoffs[id])

\* a stability analysis that takes a gain of exactly 0 for a reason to deviate
StabilityAnalysis_strict(model, rs) ==
    LET ids == IF Len(rs) > 0 THEN {model.players[i].id : i \in 1..Len(model.players)} ELSE {}
        deviationGains ==
            [id \in ids |-> DeviationGain(model, PlayerIndex(model, id) - 1, rs[Len(rs)])]
    IN  [isStable |-> \A id \in ids : ~(IsNum(deviationGains[id]) /\ deviationGains[id].n >= 0),
         deviationGains |-> deviationGains]

\* lines 594-631 (player ids are distinct): empty without results
StabilityAnalysis(model, rs) ==
    LET ids == IF Len(rs) > 0 THEN {model.players[i].id : i \in 1..Len(model.players)} ELSE {}
        deviationGains ==
            [id \in ids |-> DeviationGain(model, PlayerIndex(model, id) - 1, rs[Len(rs)])]
    IN  [isStable |-> \A id \in ids : ~(IsNum(deviationGains[id]) /\ deviationGains[id].n > 0),
         deviationGains |-> deviationGains]

AnalysisThrown == [thrown |-> TRUE]

\* lines 534-640
analyzeGameResults(model, rs) ==
    LET dominantStrategies ==
            [i \in 1..Len(model.players) |-> findDominantStrategy(model, model.players[i].id)]
        mixedEquilibrium == MixedEquilibriumDefined(model)
        convergence == Convergence(model, rs)
    IN  IF \E i \in 1..Len(model.players) : dominantStrategies[i] = Thrown
        THEN AnalysisThrown
        ELSE [thrown |-> FALSE,
              dominantStrategies |-> dominantStrategies,
              mixedEquilibrium |-> mixedEquilibrium,
              convergence |-> convergence,
              equilibriumType |->
                  EquilibriumType(model, dominantStrategies, mixedEquilibrium, convergence),
              stabilityAnalysis |-> StabilityAnalysis(model, rs)]

\* the record of a round in which the players chose the profile key (one
\* strategy per player) and received the matrix payoffs
ProfileRecord(model, step, key) ==
    Result(step, ChoicesFor(model, key), PayoffsFor(model, key))

\* histories handed to analyzeGameResults: none, or 1, 3 or 10 rounds that
\* repeat one profile, or 9 rounds of one profile followed by another
Histories(model) ==
    LET keys == AllKeys(model.players[1], model.players[2])
    IN  {<<>>}
        \cup {[i \in 1..n |-> ProfileRecord(model, i - 1, key)] : key \in keys, n \in {1, 3, 10}}
        \cup {[i \in 1..10 |-> ProfileRecord(model, i - 1, IF i < 10 THEN first ELSE key)] :
                 first \in {<<model.players[1].strategies[1], model.players[2].strategies[1]>>},
                 key \in keys}

\* the symmetric 2x2 models: player 2's payoff at (a, b) is player 1's at (b, a)
SymmetricModels(id, type) ==
    LET p1 == GenPlayer("1", 2)
        p2 == GenPlayer("2", 2)
    IN  {GameModel(id, type, <<p1, p2>>,
                   [key \in AllKeys(p1, p2) |->
                       <<f[IndexOf(p1.strategies, key[1]), IndexOf(p2.strategies, key[2])],
                         f[IndexOf(p2.strategies, key[2]), IndexOf(p1.strategies, key[1])]>>]) :
            f \in [(0..1) \X (0..1) -> 0..MaxPayoff]}

AnalyzeModels ==
    GeneratedModels("prisoners-dilemma", COMPLETE_STATIC)
    \cup SymmetricModels("smart-pig", COMPLETE_STATIC)
    \cup {PrisonersDilemma, SmartPig, Stackelberg, TestPrisonersDilemma, TestSmartPig}

InitAnalyze ==
    /\ StoreIdle
    /\ gm \in AnalyzeModels
    /\ call = NoCall
    /\ ret = AnalysisThrown

\* analyzeGameResults(gm, rs)
CallAnalyzeGameResults(rs) ==
    /\ call' = [fn |-> "analyzeGameResults", rs |-> rs]
    /\ ret' = analyzeGameResults(gm, rs)
    /\ UNCHANGED <<ctlVars, gm>>

NextAnalyze ==
    /\ call.fn = "none"
    /\ \E rs \in Histories(gm) : CallAnalyzeGameResults(rs)

SpecAnalyze == InitAnalyze /\ [][NextAnalyze]_vars

----------------------------------------------------------------------------
(* Analysis of a dominant-strategy history: claim C10 *)

\* the profile of the players' dominant strategies is what the last record
\* holds, with the payoffs the matrix gives for it
C10_LastIsDominantProfile ==
    /\ Len(call.rs) > 0
    /\ \A p \in 1..2 : \E i \in 1..Len(gm.players[p].strategies) :
          /\ C9_StrictlyDominant(gm, p, i)
          /\ Has(call.rs[Len(call.rs)].playerChoices, gm.players[p].id)
          /\ call.rs[Len(call.rs)].playerChoices[gm.players[p].id] = gm.players[p].strategies[i]
    /\ LET last == call.rs[Len(call.rs)]
           key == <<last.playerChoices[gm.players[1].id], last.playerChoices[gm.players[2].id]>>
       IN  \A p \in 1..2 :
              /\ Has(last.payoffs, gm.players[p].id)
              /\ last.payoffs[gm.players[p].id] = gm.payoffMatrix[key][p]

\* C10: for a complete-static model with id prisoners-dilemma or smart-pig in
\* which every player has a dominant strategy, analyzeGameResults on a non-empty
\* history whose last record is the dominant-strategy profile with the matrix
\* payoffs reports the pure-strategy dominant equilibrium type and isStable =
\* TRUE with every deviation gain <= 0, whatever the length of the history.
C10_DominantProfileIsStable ==
    (/\ call.fn = "analyzeGameResults"
     /\ gm.type = COMPLETE_STATIC
     /\ gm.id \in {"prisoners-dilemma", "smart-pig"}
     /\ C10_LastIsDominantProfile)
    => /\ ret.thrown = FALSE
       /\ ret.equilibriumType = EQ_PURE_DOMINANT
       /\ ret.stabilityAnalysis.isStable = TRUE
       /\ \A p \in 1..2 :
             LET gain == ret.stabilityAnalysis.deviationGains[gm.players[p].id]
             IN  gain = NegInfinity \/ (IsNum(gain) /\ gain.n <= 0)

\* a smart-pig model with two dominant strategies analysed on 10 rounds that
\* end in the dominant profile after 9 rounds of another one
C10_Witness ==
    /\ call.fn = "analyzeGameResults"
    /\ gm.id = "smart-pig"
    /\ C10_LastIsDominantProfile
    /\ Len(call.rs) = 10
    /\ call.rs[1].playerChoices # call.rs[10].playerChoices
    /\ ret.equilibriumType = EQ_PURE_DOMINANT
    /\ ret.stabilityAnalysis.isStable

----------------------------------------------------------------------------
(* utils/gameTheory.ts: calculateSignalingStrategy, calculateReceiverResponse *)

\* lines 931-947 (gao_jiaoyu / di_jiaoyu are the two education levels)
calculateSignalingStrategy(model, senderType, step, beliefs) ==
    IF ~HasPlayerAt(model, 0) THEN Thrown
    ELSE IF senderType = "high"
         THEN Num(IndexOf(model.players[1].strategies, "gao_jiaoyu"))
         ELSE Num(IndexOf(model.players[1].strategies, "di_jiaoyu"))

\* lines 957-973 (gaoxin / dixin are the two wage offers)
calculateReceiverResponse(model, signal, step, beliefs) ==
    IF ~HasPlayerAt(model, 1) THEN Thrown
    ELSE IF signal = "gao_jiaoyu"
         THEN Num(IndexOf(model.players[2].strategies, "gaoxin"))
         ELSE Num(IndexOf(model.players[2].strategies, "dixin"))

----------------------------------------------------------------------------
(* The strategy selector and its helpers applied to models whose players have
   strategy lists of different lengths *)

SelectorModels ==
    UNION {ConstantSumModels(id, COMPLETE_STATIC, shape) :
              id \in {"generated", "entry-deterrence-complete"},
              shape \in {<<1, 2>>, <<2, 1>>, <<2, 2>>, <<2, 3>>, <<3, 2>>}}
    \cup {CLASSIC_MODELS[i] : i \in 1..Len(CLASSIC_MODELS)}

\* store.simulationState.results seen by the selector: none, one round with a
\* profile of the model, or one round that recorded no choice
SelectorHistories(model) ==
    {<<>>, <<Result(0, EmptyObj, EmptyObj)>>}
    \cup {<<ProfileRecord(model, 0, key)>> : key \in AllKeys(model.players[1], model.players[2])}

InitSelector ==
    /\ StoreIdle
    /\ gm \in SelectorModels
    /\ call = NoCall
    /\ ret = Undef

\* one call per model: the function and its arguments, the 0-based position of
\* the player the index is chosen for, and one of the values the call can return
Returns(fn, args, chosenFor, values) ==
    /\ call.fn = "none"
    /\ call' = [fn |-> fn, args |-> args, chosenFor |-> chosenFor]
    /\ ret' \in values
    /\ UNCHANGED <<ctlVars, gm>>

\* store calculateStrategyChoice(gm, playerId, step, store) with store results rs
CallCalculateStrategyChoice(playerId, rs) ==
    Returns("store.calculateStrategyChoice", <<playerId, Len(rs), rs>>,
            PlayerIndex(gm, playerId) - 1,
            calculateStrategyChoice_store(gm, playerId, Len(rs), rs))

\* store calculateFollowerResponse(gm, leaderChoice)
CallCalculateFollowerResponse(leaderChoice) ==
    Returns("store.calculateFollowerResponse", <<leaderChoice>>, 1,
            {calculateFollowerResponse_store(gm, leaderChoice)})

\* store calculateIncompleteInfoStrategy(gm, playerId, beliefs, step) with the
\* beliefs simulateStep passes: updateEntryDeterrenceBeliefs(gm, results)
CallCalculateIncompleteInfoStrategy(playerId, step, rs) ==
    Returns("store.calculateIncompleteInfoStrategy", <<playerId, step, rs>>,
            PlayerIndex(gm, playerId) - 1,
            calculateIncompleteInfoStrategy_store(
                gm, playerId, updateEntryDeterrenceBeliefs_store(gm, rs), step))

\* store calculateSignalingStrategy(gm, senderType, step, beliefs)
CallCalculateSignalingStrategy_store(senderType, step) ==
    Returns("store.calculateSignalingStrategy", <<senderType, step>>, 0,
            calculateSignalingStrategy_store(gm, senderType, step, EmptyObj))

\* store calculateReceiverResponse(gm, signal, step, beliefs)
CallCalculateReceiverResponse_store(signal, step) ==
    Returns("store.calculateReceiverResponse", <<signal, step>>, 1,
            calculateReceiverResponse_store(gm, signal, step, EmptyObj))

\* utils calculateSignalingStrategy(gm, senderType, step, beliefs)
CallCalculateSignalingStrategy(senderType, step) ==
    Returns("utils.calculateSignalingStrategy", <<senderType, step>>, 0,
            {calculateSignalingStrategy(gm, senderType, step, EmptyObj)})

\* utils calculateReceiverResponse(gm, signal, step, beliefs)
CallCalculateReceiverResponse(signal, step) ==
    Returns("utils.calculateReceiverResponse", <<signal, step>>, 1,
            {calculateReceiverResponse(gm, signal, step, EmptyObj)})

NextSelector ==
    \/ \E playerId \in {"1", "2"} : \E rs \in SelectorHistories(gm) :
          CallCalculateStrategyChoice(playerId, rs)
    \/ \E leaderChoice \in StrategySet(gm.players[1]) :
          CallCalculateFollowerResponse(leaderChoice)
    \/ \E playerId \in {"1", "2"} : \E step \in {0, 5} : \E rs \in SelectorHistories(gm) :
          CallCalculateIncompleteInfoStrategy(playerId, step, rs)
    \/ \E senderType \in {"high", "low"} : \E step \in {0, 5} :
          CallCalculateSignalingStrategy_store(senderType, step)
    \/ \E signal \in StrategySet(gm.players[1]) : \E step \in {0, 5} :
          CallCalculateReceiverResponse_store(signal, step)
    \/ \E senderType \in {"high", "low"} : \E step \in {0, 5} :
          CallCalculateSignalingStrategy(senderType, step)
    \/ \E signal \in StrategySet(gm.players[1]) : \E step \in {0, 5} :
          CallCalculateReceiverResponse(signal, step)

SpecSelector == InitSelector /\ [][NextSelector]_vars

----------------------------------------------------------------------------
(* Strategy indices: claim C8 *)

\* C8 as stated: every strategy index returned by the strategy selector and its
\* helpers lies in [0, strategies.length) of the player it is chosen for, for
\* every two-player model with non-empty strategy lists of possibly different
\* lengths, every player, step and history.
C8_IndexInRange ==
    (call.fn # "none" /\ IsNum(ret))
        => (0 <= ret.n /\ ret.n < Len(gm.players[call.chosenFor + 1].strategies))

----------------------------------------------------------------------------
(* utils/gameTheory.ts calculateBestResponse, lines 62-81 *)

\* players[-1] is undefined and reading its strategies throws; a missing matrix
\* entry throws at [playerIndex]; an entry too short gives undefined, Math.max
\* of it is NaN and indexOf(NaN) is -1, as is indexOf on an empty list;
\* otherwise indexOf finds the FIRST index holding the maximum
calculateBestResponse(model, playerId, opponentStrategy) ==
    LET playerIndex == PlayerIndex(model, playerId) - 1
    IN  IF playerIndex = -1 THEN Thrown
        ELSE LET player == PlayerAt(model, playerIndex)
                 n == Len(player.strategies)
                 key(i) == PairKey(playerIndex, player.strategies[i + 1], opponentStrategy)
                 payoffs(i) == Payoff(model, key(i), playerIndex)
             IN  IF \E i \in 0..(n - 1) : ~HasEntry(model, key(i)) THEN Thrown
                 ELSE IF n = 0 \/ \E i \in 0..(n - 1) : ~HasPayoff(model, key(i), playerIndex)
                      THEN Num(-1)
                 ELSE Num(CHOOSE i \in 0..(n - 1) :
                            /\ \A j \in 0..(n - 1) : payoffs(i) >= payoffs(j)
                            /\ \A j \in 0..(i - 1) : payoffs(j) < payoffs(i))

\* calculateBestResponse of the store and of utils applied to two-player models
\* with complete matrices
ResponseModels ==
    GeneratedModels("generated", COMPLETE_STATIC)
    \cup {PrisonersDilemma, TestPrisonersDilemma, TestSmartPig}

InitResponse ==
    /\ StoreIdle
    /\ gm \in ResponseModels
    /\ call = NoCall
    /\ ret = Undef

\* one call per model; possible is the set of values the call can return
\* (more than one where the code draws Math.random)
ReturnsOneOf(fn, playerId, opponentStrategy, values) ==
    /\ call.fn = "none"
    /\ call' = [fn |-> fn, playerId |-> playerId,
                opponentStrategy |-> opponentStrategy, possible |-> values]
    /\ ret' \in values
    /\ UNCHANGED <<ctlVars, gm>>

\* store calculateBestResponse(gm, playerId, opponentStrategy)
CallCalculateBestResponse_store(playerId, opponentStrategy) ==
    ReturnsOneOf("store.calculateBestResponse", playerId, opponentStrategy,
                 calculateBestResponse_store(gm, playerId, opponentStrategy))

\* utils calculateBestResponse(gm, playerId, opponentStrategy)
CallCalculateBestResponse(playerId, opponentStrategy) ==
    ReturnsOneOf("utils.calculateBestResponse", playerId, opponentStrategy,
                 {calculateBestResponse(gm, playerId, opponentStrategy)})

\* the strategies of the opponent of the player at 1-based position q
OpponentStrategies(model, q) == StrategySet(model.players[3 - q])

NextResponse ==
    \/ \E q \in 1..2 : \E s \in OpponentStrategies(gm, q) :
          CallCalculateBestResponse_store(gm.players[q].id, s)
    \/ \E q \in 1..2 : \E s \in OpponentStrategies(gm, q) :
          CallCalculateBestResponse(gm.players[q].id, s)

SpecResponse == InitResponse /\ [][NextResponse]_vars

----------------------------------------------------------------------------
(* Best response: claim C11 *)

\* the caller's matrix payoff for its strategy i (0-based) against s
C11_PayoffOf(model, playerId, i, s) ==
    LET p == PlayerIndex(model, playerId) - 1
    IN  model.payoffMatrix[PairKey(p, model.players[p + 1].strategies[i + 1], s)][p + 1]

\* the indices of the caller's strategies whose payoff against s is the highest
C11_Maximizers(model, playerId, s) ==
    LET n == Len(model.players[PlayerIndex(model, playerId)].strategies)
    IN  {i \in 0..(n - 1) : \A j \in 0..(n - 1) :
            C11_PayoffOf(model, playerId, i, s) >= C11_PayoffOf(model, playerId, j, s)}

\* C11 as stated: for every two-player model with a complete matrix, every
\* player and every opponent strategy s, calculateBestResponse returns an index
\* whose payoff against s is at least that of each other strategy of the
\* caller, and when several strategies attain the maximum each of the tied
\* indices is a possible return value (random tie-break).
C11_BestResponseRandomTie ==
    call.fn \in {"store.calculateBestResponse", "utils.calculateBestResponse"}
        => /\ IsNum(ret)
           /\ ret.n \in C11_Maximizers(gm, call.playerId, call.opponentStrategy)
           /\ \A i \in C11_Maximizers(gm, call.playerId, call.opponentStrategy) :
                 Num(i) \in call.possible

----------------------------------------------------------------------------
(* Probabilities of calculateMixedEquilibrium. The payoffs are small integers,
   so a quotient is kept as a reduced fraction n / d with d > 0: the double
   the code computes is the one nearest to that fraction, and it compares with
   the literals 0.3 and 0.7 as the fraction compares with 3/10 and 7/10. *)

RECURSIVE GCD(_, _)
GCD(a, b) == IF b = 0 THEN a ELSE GCD(b, a % b)

\* n / d for d # 0
Frac(n, d) ==
    LET g == GCD(Abs(n), Abs(d))
        s == IF d < 0 THEN -1 ELSE 1
    IN  [tag |-> "frac", n |-> (s * n) \div g, d |-> (s * d) \div g]

\* arithmetic on an undefined payoff
NaNFrac == [tag |-> "NaN", n |-> 0, d |-> 1]

IsNaN(p) == p.tag = "NaN"

F03 == Frac(3, 10)
F05 == Frac(1, 2)
F07 == Frac(7, 10)

\* p < q on numbers; every comparison with NaN is false
FracLt(p, q) == ~IsNaN(p) /\ ~IsNaN(q) /\ p.n * q.d < q.n * p.d

\* Math.max(0.3, Math.min(0.7, p)); NaN stays NaN
Clamp(p) ==
    IF IsNaN(p) THEN NaNFrac
    ELSE IF FracLt(F07, p) THEN F07
    ELSE IF FracLt(p, F03) THEN F03
    ELSE p

\* the test of lines 191 / 637 widened to [0, 1]
OutOfRange_unit(p) == IsNaN(p) \/ FracLt(p, Frac(0, 1)) \/ FracLt(Frac(1, 1), p)

\* isNaN(p) || p < 0.3 || p > 0.7
OutOfRange(p) == IsNaN(p) \/ FracLt(p, F03) \/ FracLt(F07, p)

\* a pair { p1, p2 } handed back
Pair(p1, p2) == [tag |-> "pair", p1 |-> p1, p2 |-> p2]

\* the four entries of a 2x2 model, payoffs[r][c] for 1-based r and c
Entry2(model, r, c) ==
    model.payoffMatrix[<<model.players[1].strategies[r], model.players[2].strategies[c]>>]

\* lines 146-195 of utils, 603-641 of the store: the pair computed from four
\* entries that exist; i = 1 reads the first player's payoffs (a), i = 2 the
\* second player's (b); a payoff an entry lacks is undefined
MixedFromEntries(model) ==
    LET has(i) == \A r \in 1..2 : \A c \in 1..2 : Len(Entry2(model, r, c)) >= i
        v(i, r, c) == Entry2(model, r, c)[i]
        den(i) == v(i, 1, 1) - v(i, 1, 2) - v(i, 2, 1) + v(i, 2, 2)
        \* Math.abs(denominator) < 1e-10 on an integer, false on NaN
        zero(i) == has(i) /\ den(i) = 0
        \* (b22 - b12) / denominator1 and (a22 - a21) / denominator2
        num(i) == IF i = 2 THEN v(2, 2, 2) - v(2, 1, 2) ELSE v(1, 2, 2) - v(1, 2, 1)
        exact(i) == IF has(i) THEN Frac(num(i), den(i)) ELSE NaNFrac
        \* (b11 > b21) ? 0.7 : 0.3 and (a11 > a12) ? 0.7 : 0.3
        heuristic(i) ==
            IF i = 2 THEN (IF v(2, 1, 1) > v(2, 2, 1) THEN F07 ELSE F03)
            ELSE (IF v(1, 1, 1) > v(1, 1, 2) THEN F07 ELSE F03)
        fallback(i) == IF zero(i) THEN heuristic(i) ELSE Clamp(exact(i))
    IN  IF zero(2) \/ zero(1)
        THEN Pair(fallback(2), fallback(1))
        ELSE IF OutOfRange(exact(2)) \/ OutOfRange(exact(1))
        THEN Pair(F05, F05)
        ELSE Pair(exact(2), exact(1))

\* utils calculateMixedEquilibrium, lines 117-196
calculateMixedEquilibrium(model) ==
    IF ~MixedEquilibriumDefined(model) THEN Undef
    ELSE IF model.id = "entry-deterrence-complete" THEN Pair(F07, F03)
    ELSE MixedFromEntries(model)

\* store calculateMixedEquilibrium, lines 562-642
calculateMixedEquilibrium_store(model) ==
    IF ~MixedEquilibriumDefined_store(model) THEN Undef
    ELSE MixedFromEntries(model)

\* a boolean handed back
Bool(b) == [tag |-> "bool", b |-> b]

\* |n / d| < 1e-10 for integers n and d > 0, in 32-bit steps: n * 10^10 < d
LessThanTolerance(n, d) ==
    \/ Abs(n) * 100000 < d \div 100000
    \/ (Abs(n) * 100000 = d \div 100000 /\ d % 100000 > 0)

\* utils verifyMixedEquilibrium, lines 90-110, for fractions p1 and p2: the
\* difference of the two expected payoffs of a player, over the denominator of
\* the opponent's probability; reading a missing entry throws
verifyMixedEquilibrium(model, p1, p2) ==
    IF \E r \in 1..2 : \E c \in 1..2 :
          ~HasEntry(model, <<model.players[1].strategies[r], model.players[2].strategies[c]>>)
    THEN Thrown
    ELSE LET a(r, c) == Entry2(model, r, c)[1]
             b(r, c) == Entry2(model, r, c)[2]
             \* p1Strategy1Payoff - p1Strategy2Payoff, times p2.d
             diff1 == p2.n * (a(1, 1) - a(2, 1)) + (p2.d - p2.n) * (a(1, 2) - a(2, 2))
             \* p2Strategy1Payoff - p2Strategy2Payoff, times p1.d
             diff2 == p1.n * (b(1, 1) - b(1, 2)) + (p1.d - p1.n) * (b(2, 1) - b(2, 2))
         IN  Bool(LessThanTolerance(diff1, p2.d) /\ LessThanTolerance(diff2, p1.d))

\* 2x2 models in which the first player's payoffs are 1 on the diagonal and 0
\* off it, the second player's range over 0..(MaxPayoff + 1)
SkewModels ==
    LET p1 == GenPlayer("1", 2)
        p2 == GenPlayer("2", 2)
    IN  {GameModel("generated", COMPLETE_STATIC, <<p1, p2>>,
                   Matrix2(p1, p2, <<1, b[1]>>, <<0, b[2]>>, <<0, b[3]>>, <<1, b[4]>>)) :
            b \in [1..4 -> 0..(MaxPayoff + 1)]}

\* 2x2 models with complete matrices under a plain id and under the id utils
\* treats apart, the skew ones, the classic models and the test fixtures
MixedModels ==
    {GameModel(id, COMPLETE_STATIC, <<GenPlayer("1", 2), GenPlayer("2", 2)>>, m) :
        id \in {"generated", "entry-deterrence-complete"},
        m \in FullMatrices(GenPlayer("1", 2), GenPlayer("2", 2))}
    \cup SkewModels
    \cup {CLASSIC_MODELS[i] : i \in 1..Len(CLASSIC_MODELS)}
    \cup {TestPrisonersDilemma, TestSmartPig}

InitMixed ==
    /\ StoreIdle
    /\ gm \in MixedModels
    /\ call = NoCall
    /\ ret = Undef

\* utils calculateMixedEquilibrium(gm)
CallCalculateMixedEquilibrium ==
    /\ call.fn = "none"
    /\ call' = [fn |-> "utils.calculateMixedEquilibrium"]
    /\ ret' = calculateMixedEquilibrium(gm)
    /\ UNCHANGED <<ctlVars, gm>>

\* store calculateMixedEquilibrium(gm)
CallCalculateMixedEquilibrium_store ==
    /\ call.fn = "none"
    /\ call' = [fn |-> "store.calculateMixedEquilibrium"]
    /\ ret' = calculateMixedEquilibrium_store(gm)
    /\ UNCHANGED <<ctlVars, gm>>

\* utils verifyMixedEquilibrium(gm, p1, p2) on the pair the utils function
\* returned
CallVerifyMixedEquilibrium ==
    /\ call.fn = "utils.calculateMixedEquilibrium"
    /\ ret.tag = "pair"
    /\ call' = [fn |-> "utils.verifyMixedEquilibrium", p1 |-> ret.p1, p2 |-> ret.p2]
    /\ ret' = verifyMixedEquilibrium(gm, ret.p1, ret.p2)
    /\ UNCHANGED <<ctlVars, gm>>

NextMixed ==
    \/ CallCalculateMixedEquilibrium
    \/ CallCalculateMixedEquilibrium_store
    \/ CallVerifyMixedEquilibrium

SpecMixed == InitMixed /\ [][NextMixed]_vars

----------------------------------------------------------------------------
(* Mixed equilibrium: claim C12 *)

\* denominator1 (from the second player's payoffs, i = 2) and denominator2
\* (from the first player's, i = 1) of a 2x2 model, read off the matrix
C12_Denominator(model, i) ==
    Entry2(model, 1, 1)[i] - Entry2(model, 1, 2)[i]
        - Entry2(model, 2, 1)[i] + Entry2(model, 2, 2)[i]

\* the exactly computed p1 (i = 2) and p2 (i = 1), for a non-zero denominator
C12_Exact(model, i) ==
    Frac(IF i = 2 THEN Entry2(model, 2, 2)[2] - Entry2(model, 1, 2)[2]
                  ELSE Entry2(model, 2, 2)[1] - Entry2(model, 2, 1)[1],
         C12_Denominator(model, i))

C12_InRange(p) ==
    p.tag = "frac" /\ 3 * p.d <= 10 * p.n /\ 10 * p.n <= 7 * p.d

\* both denominators non-zero and an exact probability outside [0.3, 0.7]
C12_ExactOutside(model) ==
    /\ C12_Denominator(model, 1) # 0
    /\ C12_Denominator(model, 2) # 0
    /\ \E i \in 1..2 : ~C12_InRange(C12_Exact(model, i))

C12_Called ==
    call.fn \in {"utils.calculateMixedEquilibrium", "store.calculateMixedEquilibrium"}

\* C12 as stated: for every 2x2 model with a complete matrix of bounded integer
\* payoffs calculateMixedEquilibrium returns a defined pair with p1 and p2 in
\* [0.3, 0.7], never NaN, and returns exactly (0.5, 0.5) whenever both
\* denominators are non-zero and an exactly computed probability falls outside
\* [0.3, 0.7].
C12_ClampedOrHalf ==
    C12_Called
        => /\ ret.tag = "pair"
           /\ C12_InRange(ret.p1) /\ C12_InRange(ret.p2)
           /\ C12_ExactOutside(gm) => (ret.p1 = Frac(1, 2) /\ ret.p2 = Frac(1, 2))

\* C12 amended: the pair is defined and within [0.3, 0.7] for every such model;
\* it is exactly (0.5, 0.5) in the stated case for the store's function, and for
\* the utils function unless the model's id is entry-deterrence-complete, for
\* which the utils function returns (0.7, 0.3) whatever the payoffs.
C12_ClampedOrHalfUnlessEntryDeterrence ==
    C12_Called
        => /\ ret.tag = "pair"
           /\ C12_InRange(ret.p1) /\ C12_InRange(ret.p2)
           /\ IF call.fn = "utils.calculateMixedEquilibrium"
                 /\ gm.id = "entry-deterrence-complete"
              THEN ret.p1 = Frac(7, 10) /\ ret.p2 = Frac(3, 10)
              ELSE C12_ExactOutside(gm) => (ret.p1 = Frac(1, 2) /\ ret.p2 = Frac(1, 2))

\* the utils function has answered (0.5, 0.5) for the smart-pig fixture, whose
\* exact probabilities are 2 and -1
C12_Witness ==
    /\ gm = TestSmartPig
    /\ call.fn = "utils.calculateMixedEquilibrium"
    /\ C12_ExactOutside(gm)
    /\ ret = Pair(F05, F05)

----------------------------------------------------------------------------
(* Indifference: claim C13 *)

\* the utils function returned the exactly computed pair: both denominators
\* non-zero, both exact values inside [0.3, 0.7], and the pair handed to
\* verifyMixedEquilibrium is that pair
C13_ExactPairReturned ==
    /\ call.fn = "utils.verifyMixedEquilibrium"
    /\ C12_Denominator(gm, 1) # 0
    /\ C12_Denominator(gm, 2) # 0
    /\ C12_InRange(C12_Exact(gm, 1)) /\ C12_InRange(C12_Exact(gm, 2))
    /\ call.p1 = C12_Exact(gm, 2)
    /\ call.p2 = C12_Exact(gm, 1)

\* C13 as stated: whenever calculateMixedEquilibrium returns the exactly
\* computed pair, the pair satisfies the indifference conditions, i.e.
\* verifyMixedEquilibrium(model, p1, p2) is true, for every 2x2 integer matrix.
C13_ExactPairIsIndifferent ==
    C13_ExactPairReturned => ret = Bool(TRUE)

----------------------------------------------------------------------------
(* Belief updates of utils/gameTheory.ts (lines 843-921) and of the store
   (lines 865-909). A probability is a fraction <<numerator, denominator>>. *)

\* the total with the smoothing forgotten for all strategies but one
SmoothedTotal_once(sum, n) == 10 * sum + 1

\* line 871, in tenths: count sum + smoothingFactor * strategies.length
SmoothedTotal(sum, n) == 10 * sum + n

\* lines 843-878: per player, 1/n for each strategy without history, else
\* (count + 0.1) / (sum of counts + 0.1 * n) over the 5 most recent results
updateEntryDeterrenceBeliefs(model, history) ==
    LET ids == {model.players[i].id : i \in 1..Len(model.players)}
        recentHistory == SliceLast(history, 5)
        beliefsOf(player) ==
            LET n == Len(player.strategies)
                counts(strategy) ==
                    Cardinality({i \in 1..Len(recentHistory) :
                        Get(recentHistory[i].playerChoices, player.id) = strategy})
                sum == SumSeq([a \in 1..n |-> counts(player.strategies[a])])
            IN  [strategy \in StrategySet(player) |->
                    IF Len(history) = 0 THEN <<1, n>>
                    ELSE <<10 * counts(strategy) + 1, SmoothedTotal(sum, n)>>]
    IN  [id \in ids |-> beliefsOf(model.players[PlayerIndex(model, id)])]

\* lines 886-921 repeat lines 843-878 word for word
updateSignalingBeliefs(model, history) == updateEntryDeterrenceBeliefs(model, history)

\* the beliefs handed back
Beliefs(b) == [tag |-> "beliefs", b |-> b]

\* one model per shape (the payoffs are not read), and the two classic models
\* the updates are written for
BeliefModels ==
    {GameModel("generated", INCOMPLETE_STATIC,
               <<GenPlayer("1", shape[1]), GenPlayer("2", shape[2])>>,
               [key \in AllKeys(GenPlayer("1", shape[1]), GenPlayer("2", shape[2])) |-> <<0, 0>>]) :
        shape \in {<<1, 2>>, <<2, 2>>, <<2, 3>>, <<3, 2>>}}
    \cup {EntryDeterrenceIncomplete, SignalingGame}

\* the records a history is made of: a profile of the model, a record without
\* choices, and a record whose choices are no strategy of the model
BeliefRecords(model) ==
    {ProfileRecord(model, 0, key) : key \in AllKeys(model.players[1], model.players[2])}
    \cup {Result(0, EmptyObj, EmptyObj),
          Result(0, [id \in {"1", "2"} |-> "other"], EmptyObj)}

\* histories of up to MaxRounds results: k times one record, then m times another
BeliefHistories(model) ==
    {[i \in 1..(k + m) |-> IF i <= k THEN r1 ELSE r2] :
        k \in 0..MaxRounds, m \in 0..MaxRounds,
        r1 \in BeliefRecords(model), r2 \in BeliefRecords(model)}

InitBeliefs ==
    /\ StoreIdle
    /\ gm \in BeliefModels
    /\ call = NoCall
    /\ ret = Undef

ReturnsBeliefs(fn, history, b) ==
    /\ call' = [fn |-> fn, history |-> history]
    /\ ret' = Beliefs(b)
    /\ UNCHANGED <<ctlVars, gm>>

CallUpdateEntryDeterrenceBeliefs(history) ==
    ReturnsBeliefs("utils.updateEntryDeterrenceBeliefs", history,
                   updateEntryDeterrenceBeliefs(gm, history))

CallUpdateSignalingBeliefs(history) ==
    ReturnsBeliefs("utils.updateSignalingBeliefs", history,
                   updateSignalingBeliefs(gm, history))

CallUpdateEntryDeterrenceBeliefs_store(history) ==
    ReturnsBeliefs("store.updateEntryDeterrenceBeliefs", history,
                   updateEntryDeterrenceBeliefs_store(gm, history))

CallUpdateSignalingBeliefs_store(history) ==
    ReturnsBeliefs("store.updateSignalingBeliefs", history,
                   updateSignalingBeliefs_store(gm, history))

NextBeliefs ==
    \/ call.fn = "none" /\ \E history \in BeliefHistories(gm) :
          CallUpdateEntryDeterrenceBeliefs(history)
    \/ call.fn = "none" /\ \E history \in BeliefHistories(gm) :
          CallUpdateSignalingBeliefs(history)
    \/ call.fn = "none" /\ \E history \in BeliefHistories(gm) :
          CallUpdateEntryDeterrenceBeliefs_store(history)
    \/ call.fn = "none" /\ \E history \in BeliefHistories(gm) :
          CallUpdateSignalingBeliefs_store(history)

SpecBeliefs == InitBeliefs /\ [][NextBeliefs]_vars

----------------------------------------------------------------------------
(* Beliefs are distributions: claim C14 *)

RECURSIVE C14_DenProduct(_)
\* the product of the denominators of a sequence of fractions
C14_DenProduct(fs) == IF Len(fs) = 0 THEN 1 ELSE fs[1][2] * C14_DenProduct(Tail(fs))

\* the fractions of a sequence add up to 1
C14_SumIsOne(fs) ==
    LET D == C14_DenProduct(fs)
    IN  D # 0 /\ SumSeq([i \in 1..Len(fs) |-> fs[i][1] * (D \div fs[i][2])]) = D

\* C14: for every model and history the belief update returns, for each player,
\* one probability per strategy of that player, summing to 1; with an empty
\* history each probability is 1 / (number of the player's strategies).
C14_BeliefsAreDistributions ==
    call.fn \in {"utils.updateEntryDeterrenceBeliefs", "utils.updateSignalingBeliefs",
                 "store.updateEntryDeterrenceBeliefs", "store.updateSignalingBeliefs"}
        => \A q \in 1..Len(gm.players) :
              LET player == gm.players[q]
                  n == Len(player.strategies)
                  b == ret.b[player.id]
              IN  /\ DOMAIN b = StrategySet(player)
                  /\ C14_SumIsOne([a \in 1..n |-> b[player.strategies[a]]])
                  /\ call.history = <<>>
                        => \A a \in 1..n : b[player.strategies[a]][1] * n
                                              = b[player.strategies[a]][2]

\* the smoothed update has run on a history longer than its window of 5 in
\* which a player changed strategy, and a strategy never played stays possible
C14_Witness ==
    /\ call.fn = "utils.updateEntryDeterrenceBeliefs"
    /\ Len(call.history) > 5
    /\ call.history[1].playerChoices # call.history[Len(call.history)].playerChoices
    /\ \E q \in 1..Len(gm.players) : \E a \in 1..Len(gm.players[q].strategies) :
          /\ \A i \in 1..Len(call.history) :
                Get(call.history[i].playerChoices, gm.players[q].id) # gm.players[q].strategies[a]
          /\ ret.b[gm.players[q].id][gm.players[q].strategies[a]][1] > 0

----------------------------------------------------------------------------
(* analyzeGameResults on longer histories, with recorded payoffs that need not
   be the matrix payoffs *)

\* a 2x3 and a 3x2 model whose payoffs differ from entry to entry
RectangularModels ==
    {GameModel("generated", COMPLETE_STATIC,
               <<GenPlayer("1", shape[1]), GenPlayer("2", shape[2])>>,
               [key \in AllKeys(GenPlayer("1", shape[1]), GenPlayer("2", shape[2])) |->
                   LET r == IndexOf(GenPlayer("1", shape[1]).strategies, key[1])
                       c == IndexOf(GenPlayer("2", shape[2]).strategies, key[2])
                   IN  <<(r + 2 * c) % 3, (2 * r + c) % 3>>]) :
        shape \in {<<2, 3>>, <<3, 2>>}}

HistoryModels ==
    UNION {ConstantSumModels("prisoners-dilemma", COMPLETE_STATIC, shape) :
              shape \in {<<1, 2>>, <<2, 2>>}}
    \cup SymmetricModels("smart-pig", COMPLETE_STATIC)
    \cup RectangularModels
    \cup {CLASSIC_MODELS[i] : i \in 1..Len(CLASSIC_MODELS)}
    \cup {TestPrisonersDilemma, TestSmartPig}

\* the results a history is made of: each profile with its matrix payoffs, the
\* first profile with both payoffs recorded as -1 or as MaxPayoff + 1, and a
\* result without choices and payoffs
HistoryRecords(model) ==
    LET first == <<model.players[1].strategies[1], model.players[2].strategies[1]>>
    IN  {ProfileRecord(model, 0, key) : key \in AllKeys(model.players[1], model.players[2])}
        \cup {Result(0, ChoicesFor(model, first),
                     [id \in {model.players[1].id, model.players[2].id} |-> x]) :
                 x \in {-1, MaxPayoff + 1}}
        \cup {Result(0, EmptyObj, EmptyObj)}

\* k times one result followed by m times another: lengths 0 to 12, with the
\* change of result before, at the edge of, or inside the last 10
LongHistories(model) ==
    {[i \in 1..(k + m) |-> IF i <= k THEN r1 ELSE r2] :
        k \in 0..2, m \in {0, 1, 9, 10},
        r1 \in HistoryRecords(model), r2 \in HistoryRecords(model)}

InitHistory ==
    /\ StoreIdle
    /\ gm \in HistoryModels
    /\ call = NoCall
    /\ ret = AnalysisThrown

NextHistory ==
    /\ call.fn = "none"
    /\ \E rs \in LongHistories(gm) : CallAnalyzeGameResults(rs)

SpecHistory == InitHistory /\ [][NextHistory]_vars

----------------------------------------------------------------------------
(* Convergence: claim C15 *)

\* every player's choice is the same in all of the last 10 results
C15_SameInLastTen(model, rs) ==
    \A q \in 1..Len(model.players) :
        \A i \in 1..Len(rs) : \A j \in 1..Len(rs) :
            (i > Len(rs) - 10 /\ j > Len(rs) - 10)
                => Get(rs[i].playerChoices, model.players[q].id)
                      = Get(rs[j].playerChoices, model.players[q].id)

\* C15: analyzeGameResults reports convergence = true exactly when the history
\* holds at least 10 results and every player's choice is the same in all of
\* the 10 most recent results; with fewer than 10 results, or a change of a
\* player's choice inside the last 10, it reports false.
C15_ConvergenceIffTenSame ==
    (call.fn = "analyzeGameResults" /\ ~ret.thrown)
        => (ret.convergence <=> (Len(call.rs) >= 10 /\ C15_SameInLastTen(gm, call.rs)))

\* a history of 11 results whose first differs from the 10 that follow has been
\* analyzed and found converged
C15_Witness ==
    /\ call.fn = "analyzeGameResults"
    /\ ~ret.thrown
    /\ Len(call.rs) = 11
    /\ call.rs[1].playerChoices # call.rs[2].playerChoices
    /\ ret.convergence

----------------------------------------------------------------------------
(* Deviation gains and stability: claim C16 *)

\* the last result of the analyzed history
C16_Last == call.rs[Len(call.rs)]

\* the last result records, for both players, a strategy of the player and a
\* payoff
C16_LastIsComplete ==
    /\ Len(call.rs) > 0
    /\ \A q \in 1..2 :
          /\ Get(C16_Last.playerChoices, gm.players[q].id) \in StrategySet(gm.players[q])
          /\ Has(C16_Last.payoffs, gm.players[q].id)

\* the matrix payoffs of the player at position q for each of its strategies
\* other than the one it played last, the opponent's last choice held fixed
C16_OtherPayoffs(q) ==
    LET mine == C16_Last.playerChoices[gm.players[q].id]
        theirs == C16_Last.playerChoices[gm.players[3 - q].id]
    IN  {gm.payoffMatrix[PairKey(q - 1, s, theirs)][q] :
            s \in StrategySet(gm.players[q]) \ {mine}}

\* the gain recorded for the player at position q is the highest of these
\* payoffs minus the recorded payoff (-Infinity when it has no other strategy)
C16_GainIsBestDeviation(q) ==
    LET gain == ret.stabilityAnalysis.deviationGains[gm.players[q].id]
        recorded == C16_Last.payoffs[gm.players[q].id]
    IN  IF C16_OtherPayoffs(q) = {} THEN gain = NegInfinity
        ELSE /\ IsNum(gain)
             /\ gain.n + recorded \in C16_OtherPayoffs(q)
             /\ \A x \in C16_OtherPayoffs(q) : x <= gain.n + recorded

\* a player could have done strictly better by deviating from the last result
C16_BetterDeviation(q) ==
    \E x \in C16_OtherPayoffs(q) : x > C16_Last.payoffs[gm.players[q].id]

C16_Positive(gain) == IsNum(gain) /\ gain.n > 0

\* gain <= 0, which holds of -Infinity and fails of NaN
C16_AtMostZero(gain) == gain = NegInfinity \/ (IsNum(gain) /\ gain.n <= 0)

----------------------------------------------------------------------------
(* The store's selector and simulateStep applied to models whose payoff matrix
   lacks an entry, or holds an entry with one payoff only *)

\* a matrix without the entry for key
WithoutEntry(m, key) == [k \in (DOMAIN m) \ {key} |-> m[k]]

\* a matrix whose entry for key holds the first player's payoff only
WithShortEntry(m, key) == [m EXCEPT ![key] = <<m[key][1]>>]

\* the constant-sum 2x2 models of both complete-information types with one
\* entry taken out or cut short
IncompleteMatrixModels ==
    LET p1 == GenPlayer("1", 2)
        p2 == GenPlayer("2", 2)
    IN  {GameModel("generated", type, <<p1, p2>>, damaged) :
            type \in {COMPLETE_STATIC, COMPLETE_DYNAMIC},
            damaged \in UNION {{WithoutEntry(m, key), WithShortEntry(m, key)} :
                                  m \in ConstantSumMatrices(p1, p2), key \in AllKeys(p1, p2)}}

InitIncompleteMatrix ==
    /\ StoreIdle
    /\ gm \in IncompleteMatrixModels
    /\ call = NoCall
    /\ ret = Undef

\* store simulateStep(gm, step, store) with store results rs and step = rs.length,
\* as the interval callback calls it (line 144)
CallSimulateStep(rs) ==
    Returns("store.simulateStep", <<Len(rs), rs>>, 0, simulateStep_store(gm, Len(rs), rs))

NextIncompleteMatrix ==
    \/ \E playerId \in {"1", "2"} : \E rs \in SelectorHistories(gm) :
          CallCalculateStrategyChoice(playerId, rs)
    \/ \E rs \in SelectorHistories(gm) : CallSimulateStep(rs)

SpecIncompleteMatrix == InitIncompleteMatrix /\ [][NextIncompleteMatrix]_vars

----------------------------------------------------------------------------
(* Missing payoff entries: claim C17 *)

\* the key of the choices a returned result records
C17_RecordedKey(result) ==
    <<Get(result.playerChoices, gm.players[1].id), Get(result.playerChoices, gm.players[2].id)>>

\* C17 as stated: when the matrix lacks the entry for a strategy combination
\* (or the entry is shorter than the player count), neither strategy selection
\* nor a simulation tick raises an error: the selector falls back to a valid
\* index, the tick still yields a record to append, and payoff assignment for a
\* record whose combination has no entry is skipped.
C17_MissingEntryNeverRaises ==
    /\ call.fn = "store.calculateStrategyChoice"
          => /\ IsNum(ret)
             /\ 0 <= ret.n /\ ret.n < Len(gm.players[call.chosenFor + 1].strategies)
    /\ call.fn = "store.simulateStep"
          => /\ ~ret.thrown
             /\ ~HasEntry(gm, C17_RecordedKey(ret.result)) => ret.result.payoffs = EmptyObj

----------------------------------------------------------------------------
(* The store's selector applied to a model with a single player, and asked for
   a player the model does not hold *)

\* models whose only player has n strategies, with one payoff per strategy
SinglePlayerModels ==
    {GameModel(id, COMPLETE_STATIC, <<GenPlayer("1", n)>>,
               [key \in {<<GenPlayer("1", n).strategies[a]>> : a \in 1..n} |-> <<x>>]) :
        id \in {"generated", "smart-pig"}, n \in 1..3, x \in 0..MaxPayoff}

MalformedModels ==
    SinglePlayerModels \cup ConstantSumModels("generated", COMPLETE_STATIC, <<2, 2>>)

\* store results seen by the selector: none, a round without choices, a round
\* in which every player of the model chose its first or its last strategy
MalformedHistories(model) ==
    {<<>>, <<Result(0, EmptyObj, EmptyObj)>>}
    \cup {<<Result(0, [id \in {model.players[q].id : q \in 1..Len(model.players)} |->
                          LET s == model.players[PlayerIndex(model, id)].strategies
                          IN  IF last THEN s[Len(s)] ELSE s[1]],
                   EmptyObj)>> : last \in BOOLEAN}

InitMalformed ==
    /\ StoreIdle
    /\ gm \in MalformedModels
    /\ call = NoCall
    /\ ret = Undef

NextMalformed ==
    \/ \E playerId \in {"1", "2", "3"} : \E rs \in MalformedHistories(gm) :
          CallCalculateStrategyChoice(playerId, rs)
    \/ \E playerId \in {"1", "2", "3"} : \E s \in {"a0", "b0", "b1"} :
          CallCalculateBestResponse_store(playerId, s)

SpecMalformed == InitMalformed /\ [][NextMalformed]_vars

----------------------------------------------------------------------------
(* Unresolvable player or opponent: claim C18 *)

\* the model has no second player, or the player asked for is not in it
C18_Unresolvable(playerId) ==
    Len(gm.players) < 2 \/ \A q \in 1..Len(gm.players) : gm.players[q].id # playerId

\* C18 as stated: given a model with a single player, or a playerId that is not
\* in model.players, the strategy selector (calculateStrategyChoice and the
\* two-player helpers it calls) returns index 0 and does not raise.
C18_SafeDefault ==
    /\ (call.fn = "store.calculateStrategyChoice" /\ C18_Unresolvable(call.args[1]))
          => ret = Num(0)
    /\ (call.fn = "store.calculateBestResponse" /\ C18_Unresolvable(call.playerId))
          => ret = Num(0)


----------------------------------------------------------------------------
(* The store's simulateStep applied to the incomplete-information models of
   CLASSIC_MODELS, on the results earlier ticks left in the store *)

IncompleteInformationModels == {EntryDeterrenceIncomplete, InsuranceMarket, SignalingGame}

\* what a tick drew: the choices and the signals of its result
SameDraw(a, b) == a.playerChoices = b.playerChoices /\ a.signals = b.signals

RECURSIVE TickedResults(_, _)
\* the results the store holds after Len(draws) ticks (lines 144-152) that drew
\* draws[1], draws[2], ...: every tick calls simulateStep with the results so
\* far, unless the termination check of lines 84-141 stopped the timer; a draw
\* the step cannot make leaves no results at all
TickedResults(model, draws) ==
    IF Len(draws) = 0 THEN {<<>>}
    ELSE LET n == Len(draws)
         IN  UNION {{Append(rs, o.result) :
                        o \in {x \in simulateStep_store(model, n - 1, rs) :
                                  ~x.thrown /\ SameDraw(x.result, draws[n])}} :
                    rs \in {h \in TickedResults(model, SubSeq(draws, 1, n - 1)) :
                               ~ShouldTerminate(model, h)}}

\* the draws of the first tick of a model
FirstDraws(model) ==
    {o.result : o \in {x \in simulateStep_store(model, 0, <<>>) : ~x.thrown}}

\* the stores after n ticks, of which the first k drew one thing and the others another
TickedHistories(model) ==
    UNION {TickedResults(model, [i \in 1..n |-> IF i <= k THEN d1 ELSE d2]) :
              d1 \in FirstDraws(model), d2 \in FirstDraws(model),
              k \in 0..MaxRounds, n \in 0..MaxRounds}

InitIncompleteInformation ==
    /\ StoreIdle
    /\ gm \in IncompleteInformationModels
    /\ call = NoCall
    /\ ret = Undef

\* the interval callback's call of simulateStep (line 144), reached when the
\* termination check of lines 84-141 let the tick through
CallSimulateStepOfTick ==
    /\ call.fn = "none"
    /\ \E rs \in TickedHistories(gm) :
          /\ ~ShouldTerminate(gm, rs)
          /\ CallSimulateStep(rs)

NextIncompleteInformation == CallSimulateStepOfTick

SpecIncompleteInformation == InitIncompleteInformation /\ [][NextIncompleteInformation]_vars

----------------------------------------------------------------------------
(* The signaling game: claim C19 *)

\* a tick of the signaling game appended its result
C19_Produced ==
    /\ gm.id = "signaling-game"
    /\ call.fn = "store.simulateStep"
    /\ ~ret.thrown

\* the results in the store after that tick
C19_Results == Append(call.args[2], ret.result)

\* the sender's choice the claim assigns to a drawn type
C19_ChoiceOfType(senderType) ==
    IF senderType = "high" THEN "gao_jiaoyu" ELSE "di_jiaoyu"

\* C19 as stated: in every result the controller produces for the signaling
\* game, at every step, the sender's choice is the one of the drawn senderType
\* (high -> high education, low -> low education) and two results with the same
\* sender choice have the same receiver choice
C19_ChoicesAreFunctions ==
    C19_Produced =>
        /\ \A i \in 1..Len(C19_Results) :
              Get(C19_Results[i].playerChoices, "1")
                  = C19_ChoiceOfType(C19_Results[i].signals.senderType)
        /\ \A i, j \in 1..Len(C19_Results) :
              Get(C19_Results[i].playerChoices, "1") = Get(C19_Results[j].playerChoices, "1")
                  => Get(C19_Results[i].playerChoices, "2")
                         = Get(C19_Results[j].playerChoices, "2")


----------------------------------------------------------------------------
(* The leader and the follower of the stackelberg model: claim C20 *)

\* the store runs the stackelberg model; without loadSimulationResults every
\* result in the store was produced by a tick
C20_Running == selectedModelId = "stackelberg"

\* the follower's strategies with the highest follower payoff against a leader choice
C20_BestResponses(leaderChoice) ==
    {f \in StrategySet(Stackelberg.players[2]) :
        \A g \in StrategySet(Stackelberg.players[2]) :
            Payoff(Stackelberg, <<leaderChoice, f>>, 1)
                >= Payoff(Stackelberg, <<leaderChoice, g>>, 1)}

\* the follower's recorded choice is a best response to the leader's recorded choice
C20_FollowerBestResponds(result) ==
    Get(result.playerChoices, "2") \in C20_BestResponses(Get(result.playerChoices, "1"))

\* the leader's recorded choice, answered by a best response, pays the leader at
\* least what any leader strategy pays when answered by a best response
C20_LeaderAnticipates(result) ==
    LET leaderChoice == Get(result.playerChoices, "1")
    IN  \A f \in C20_BestResponses(leaderChoice) :
            \A other \in StrategySet(Stackelberg.players[1]) :
                \A g \in C20_BestResponses(other) :
                    Payoff(Stackelberg, <<leaderChoice, f>>, 0)
                        >= Payoff(Stackelberg, <<other, g>>, 0)

\* C20 as stated: in every result the controller produces for the stackelberg
\* model the follower's choice maximizes the follower's payoff against the
\* leader's choice of the same result, and the leader's choice maximizes the
\* leader's payoff among all leader strategies when each is paired with the
\* follower's best response to it
C20_StackelbergLookahead ==
    C20_Running =>
        \A i \in 1..Len(results) :
            /\ C20_FollowerBestResponds(results[i])
            /\ C20_LeaderAnticipates(results[i])


----------------------------------------------------------------------------
(* utils/gameTheory.ts: calculateSubgamePerfectEquilibrium.  A node of the game
   tree is the history of strategies played so far; the key newHistory.join(',')
   is that history as a sequence. *)

\* parseInt(currentPlayer.id) for the ids the models use; NaN for any other id
ParseInt(id) ==
    CASE id = "1" -> Num(1)
      [] id = "2" -> Num(2)
      [] id = "3" -> Num(3)
      [] OTHER -> NaN

\* lines 207-226, calculateBackward: "throw" when model.payoffMatrix[key] is
\* undefined for a strategy of the acting player, else the first strategy whose
\* payoff exceeds the payoffs before it and is not exceeded after it
\* (strategies[0] when no payoff is a number)
calculateBackward(model, history) ==
    LET currentPlayer == model.players[(Len(history) % Len(model.players)) + 1]
        strategies == currentPlayer.strategies
        n == Len(strategies)
        key(a) == Append(history, strategies[a])
        at == ParseInt(currentPlayer.id)
        valid == {a \in 1..n : IsNum(at) /\ HasPayoff(model, key(a), at.n - 1)}
        payoff(a) == Payoff(model, key(a), at.n - 1)
    IN  IF \E a \in 1..n : ~HasEntry(model, key(a)) THEN Thrown
        ELSE IF n = 0 THEN Undef
        ELSE IF valid = {} THEN [tag |-> "strategy", n |-> strategies[1]]
        ELSE [tag |-> "strategy",
              n |-> strategies[CHOOSE a \in valid :
                                  /\ \A b \in valid : payoff(a) >= payoff(b)
                                  /\ \A b \in valid : b < a => payoff(b) < payoff(a)]]

\* the value calculateSubgamePerfectEquilibrium hands back: the equilibrium
\* object, or a thrown TypeError
Equilibrium(nodes) == [thrown |-> FALSE, equilibrium |-> nodes]
EquilibriumThrown == [thrown |-> TRUE, equilibrium |-> EmptyObj]

RECURSIVE processNode(_, _)
\* lines 229-241, processNode: the entries equilibrium holds when the call on
\* history returns, or a throw; the children are processed before the node, and
\* a history as long as the player list is a leaf
processNode(model, history) ==
    IF Len(history) = Len(model.players) THEN Equilibrium(EmptyObj)
    ELSE LET currentPlayer == model.players[(Len(history) % Len(model.players)) + 1]
             n == Len(currentPlayer.strategies)
             child(a) == processNode(model, Append(history, currentPlayer.strategies[a]))
             own == calculateBackward(model, history)
         IN  IF \E a \in 1..n : child(a).thrown THEN EquilibriumThrown
             ELSE IF own.tag = "throw" THEN EquilibriumThrown
             ELSE LET below == UNION {DOMAIN child(a).equilibrium : a \in 1..n}
                  IN  Equilibrium(
                        [node \in below \cup {history} |->
                            IF node = history
                            THEN (IF own.tag = "undefined" THEN Undefined ELSE own.n)
                            ELSE child(CHOOSE a \in 1..n :
                                         node \in DOMAIN child(a).equilibrium).equilibrium[node]])

\* lines 203-245
calculateSubgamePerfectEquilibrium(model) == processNode(model, <<>>)

\* the 2x2 matrices of a game tree: an entry per pair and an entry per first move
TreeMatrices(p1, p2) ==
    LET firstMoves == {<<p1.strategies[a]>> : a \in 1..Len(p1.strategies)}
    IN  {[key \in AllKeys(p1, p2) \cup firstMoves |->
              IF key \in firstMoves THEN <<f[key], 0>>
              ELSE <<pair[key], MaxPayoff - pair[key]>>] :
            f \in [firstMoves -> 0..MaxPayoff], pair \in [AllKeys(p1, p2) -> 0..MaxPayoff]}

\* two-player models with an entry per pair of strategies: the generated ones,
\* the classic models and the test fixtures
PairMatrixModels ==
    GeneratedModels("generated", COMPLETE_DYNAMIC)
    \cup {CLASSIC_MODELS[i] : i \in 1..Len(CLASSIC_MODELS)}
    \cup {TestPrisonersDilemma, TestSmartPig}

\* the same with the models whose matrix also holds an entry per first move,
\* and a model whose first mover has no strategy
SubgameModels ==
    PairMatrixModels
    \cup {GameModel("tree", COMPLETE_DYNAMIC, <<GenPlayer("1", 2), GenPlayer("2", 2)>>, m) :
             m \in TreeMatrices(GenPlayer("1", 2), GenPlayer("2", 2))}
    \cup {GameModel("generated", COMPLETE_DYNAMIC, <<GenPlayer("1", 0), GenPlayer("2", 2)>>,
                    EmptyObj)}

InitSubgame ==
    /\ StoreIdle
    /\ gm \in SubgameModels
    /\ call = NoCall
    /\ ret = Undef

CallCalculateSubgamePerfectEquilibrium ==
    Returns("calculateSubgamePerfectEquilibrium", <<>>, 0,
            {calculateSubgamePerfectEquilibrium(gm)})

NextSubgame == CallCalculateSubgamePerfectEquilibrium

SpecSubgame == InitSubgame /\ [][NextSubgame]_vars

----------------------------------------------------------------------------
(* Backward induction: claim C21 *)

\* the call was made on a model with an entry per pair and a first move to make
C21_Called ==
    /\ call.fn = "calculateSubgamePerfectEquilibrium"
    /\ gm \in PairMatrixModels

\* the second mover's payoff-maximizing replies to a first move
C21_BestReplies(first) ==
    {t \in StrategySet(gm.players[2]) :
        \A u \in StrategySet(gm.players[2]) :
            Payoff(gm, <<first, t>>, 1) >= Payoff(gm, <<first, u>>, 1)}

\* the first mover's payoff of a first move answered by the solved reply
C21_Continuation(first) == Payoff(gm, <<first, ret.equilibrium[<<first>>]>>, 0)

\* C21 as stated: for a two-player model with one matrix entry per pair of
\* strategies calculateSubgamePerfectEquilibrium ends without error, solves no
\* node deeper than the player list, gives every second-mover node a reply that
\* maximizes the second mover's payoff, and gives the root the first move that
\* maximizes the first mover's payoff given the solved replies
C21_BackwardInduction ==
    C21_Called =>
        /\ ~ret.thrown
        /\ \A node \in DOMAIN ret.equilibrium : Len(node) < Len(gm.players)
        /\ \A s \in StrategySet(gm.players[1]) :
              /\ <<s>> \in DOMAIN ret.equilibrium
              /\ ret.equilibrium[<<s>>] \in C21_BestReplies(s)
        /\ <<>> \in DOMAIN ret.equilibrium
        /\ \A s \in StrategySet(gm.players[1]) :
              C21_Continuation(ret.equilibrium[<<>>]) >= C21_Continuation(s)


----------------------------------------------------------------------------
(* Belief-driven choices of the incomplete-static models: claim C22 *)

\* a tick of an incomplete-static model appended its result
C22_Produced ==
    /\ gm.type = INCOMPLETE_STATIC
    /\ call.fn = "store.simulateStep"
    /\ ~ret.thrown

\* the players whose choice is driven by beliefs: both in the insurance market,
\* the entrant in the entry-deterrence game (the incumbent follows its type)
C22_BeliefDriven ==
    IF gm.id = "insurance-market" THEN {1, 2} ELSE {2}

\* the belief distribution derived from the results that preceded the tick
C22_Beliefs == updateEntryDeterrenceBeliefs_store(gm, call.args[2])

\* the expected payoff of strategy s of the player at position i, times the
\* denominator the beliefs about the opponent share
C22_Expected(i, s) ==
    LET opponent == gm.players[3 - i]
    IN  SumSeq([k \in 1..Len(opponent.strategies) |->
                  C22_Beliefs[opponent.id][opponent.strategies[k]][1]
                     * Payoff(gm, PairKey(i - 1, s, opponent.strategies[k]), i - 1)])

\* the recorded choice of the player at position i maximizes its expected payoff
C22_Maximizes(i) ==
    \A s \in StrategySet(gm.players[i]) :
        C22_Expected(i, Get(ret.result.playerChoices, gm.players[i].id)) >= C22_Expected(i, s)

----------------------------------------------------------------------------
(* Live interval timers: claim C23 *)

\* C23 as stated: after any sequence of start, stop, reset and setSelectedModel
\* calls at most one live ticker is able to append results: no two live tickers
\* both find a model selected and isRunning true at their next tick
C23_AtMostOneAppender ==
    tickers >= 2 => CallbackCancelled


----------------------------------------------------------------------------
(* The step counter and the step field: claim C24 *)

\* C24: currentStep equals results.length in every state reachable through
\* setSelectedModel, start, stop, reset, loadSimulationResults and ticks, and
\* every record a tick appends carries a step field equal to the number of
\* results that preceded it
C24_StepCountsResults ==
    /\ [](currentStep = Len(results))
    /\ [][lastOp' = "tick_append"
             => /\ Len(results') = Len(results) + 1
                /\ SubSeq(results', 1, Len(results)) = results
                /\ results'[Len(results')].step = Len(results)]_vars

\* a tick appended a record to results that were loaded before
C24_Witness ==
    /\ lastOp = "tick_append"
    /\ Len(results) >= 4
    /\ results[Len(results)].step = Len(results) - 1
    /\ currentStep = Len(results)


----------------------------------------------------------------------------
(* A run left to itself: a model of CLASSIC_MODELS is selected once and
   started, and from then on only the interval timers act (and further calls
   of startSimulation) *)

\* the ids of CLASSIC_MODELS a run is started on
RunModelIds ==
    {"prisoners-dilemma", "smart-pig", "stackelberg", "entry-deterrence-complete",
     "entry-deterrence-incomplete", "insurance-market"}

\* the user picks a model while none is selected
SelectOnce ==
    /\ selectedModelId = Null
    /\ \E modelId \in RunModelIds : setSelectedModel(modelId)

NextRun ==
    \/ SelectOnce
    \/ startSimulation
    \/ Tick

\* a step in which the callback of a live timer ran, by what every return point
\* of the callback does to the store (lines 61-153): it names itself in lastOp,
\* may clear its timer, may clear isRunning, and may append one result.  On the
\* steps of NextRun it is the action Tick, and it is enabled when Tick is: when
\* a timer is alive
TimerFires ==
    /\ tickers > 0
    /\ lastOp' \in TickExits
    /\ tickers' \in {tickers - 1, tickers}
    /\ isRunning' \in {FALSE, isRunning}
    /\ currentStep' \in {currentStep, currentStep + 1}
    /\ \/ results' = results
       \/ SubSeq(results', 1, Len(results)) = results
    /\ UNCHANGED <<selectedModelId, pureVars>>

\* setInterval runs the callback of a live timer again and again
SpecRun == Init /\ [][NextRun]_vars /\ WF_vars(TimerFires)


----------------------------------------------------------------------------
(* Termination of a run: claim C25 *)

\* the termination conditions of the callback hold: the round limit is reached
\* or the termination check succeeds
C25_Ended ==
    /\ HasModel(selectedModelId)
    /\ \/ TickAtMax(FindModel(selectedModelId))
       \/ ShouldTerminate(FindModel(selectedModelId), results)

----------------------------------------------------------------------------
(* Why a run ends early: claim C26 *)

\* the choice profile of a result, in player order
C26_Profile(model, result) ==
    [q \in 1..Len(model.players) |-> result.playerChoices[model.players[q].id]]

\* a profile is a pure-strategy Nash equilibrium of the payoff matrix: no player
\* has a strategy whose matrix payoff, the others' choices held fixed, is
\* strictly higher than the player's matrix payoff at the profile
C26_PureNash(model, profile) ==
    /\ profile \in DOMAIN model.payoffMatrix
    /\ \A i \in 1..Len(model.players) :
          \A a \in 1..Len(model.players[i].strategies) :
              LET deviation == [profile EXCEPT ![i] = model.players[i].strategies[a]]
              IN  /\ deviation \in DOMAIN model.payoffMatrix
                  /\ model.payoffMatrix[deviation][i] <= model.payoffMatrix[profile][i]

\* C26: in a run without loadSimulationResults, a step that leaves Running
\* below the round limit and is no stop, reset or model change finds the 5 most
\* recent results with one choice profile, and that profile is a pure-strategy
\* Nash equilibrium of the payoff matrix
C26_EarlyStopIsEquilibrium ==
    [][(/\ isRunning /\ ~isRunning'
        /\ HasModel(selectedModelId)
        /\ currentStep < RoundsMax(FindModel(selectedModelId))
        /\ lastOp' \notin {"stopSimulation", "resetSimulation", "setSelectedModel"})
          => /\ lastOp' = "tick_equilibrium"
             /\ Len(results) >= 5
             /\ \A k \in (Len(results) - 4)..Len(results) :
                   C26_Profile(FindModel(selectedModelId), results[k])
                      = C26_Profile(FindModel(selectedModelId), results[Len(results)])
             /\ C26_PureNash(FindModel(selectedModelId),
                             C26_Profile(FindModel(selectedModelId), results[Len(results)]))]_vars

\* a run of ticks that the termination check ended below the round limit
C26_Witness ==
    /\ lastOp = "tick_equilibrium"
    /\ ~isRunning
    /\ Len(results) = 5
    /\ currentStep = 5
    /\ currentStep < RoundsMax(FindModel(selectedModelId))
    /\ \A k \in 1..5 : results[k].step = k - 1


----------------------------------------------------------------------------
(* Recorded payoffs: claim C27 *)

\* the payoff matrix has an entry of full length for every strategy profile
C27_CompleteMatrix(model) ==
    /\ Len(model.players) = 2
    /\ \A key \in AllKeys(model.players[1], model.players[2]) :
          /\ key \in DOMAIN model.payoffMatrix
          /\ Len(model.payoffMatrix[key]) = 2

\* every player has a recorded choice and a recorded payoff, and the payoff of
\* the player at position i is element i of the matrix entry whose key is the
\* recorded choices in player order
C27_PayoffsOfRecordedChoices(model, result) ==
    /\ \A i \in 1..Len(model.players) :
          /\ Has(result.playerChoices, model.players[i].id)
          /\ Has(result.payoffs, model.players[i].id)
    /\ LET key == [q \in 1..Len(model.players) |->
                      result.playerChoices[model.players[q].id]]
       IN  /\ key \in DOMAIN model.payoffMatrix
           /\ \A i \in 1..Len(model.players) :
                 result.payoffs[model.players[i].id] = model.payoffMatrix[key][i]

\* C27: for a model with a complete payoff matrix, the record a tick appends
\* has, for the player at each position i, the payoff that is element i of the
\* matrix entry keyed by the choices recorded in the same record
C27_TickRecordsMatrixPayoffs ==
    [][(lastOp' = "tick_append" /\ C27_CompleteMatrix(FindModel(selectedModelId)))
          => /\ Len(results') = Len(results) + 1
             /\ C27_PayoffsOfRecordedChoices(FindModel(selectedModelId),
                                             results'[Len(results')])]_vars

\* a tick appended a record in which the two players' payoffs differ
C27_Witness ==
    /\ lastOp = "tick_append"
    /\ Len(results) >= 2
    /\ C27_CompleteMatrix(FindModel(selectedModelId))
    /\ results[Len(results)].payoffs["1"] # results[Len(results)].payoffs["2"]
    /\ results[Len(results)].playerChoices # results[1].playerChoices


----------------------------------------------------------------------------
(* Beliefs are derived from the history: claim C28 *)

\* a call of simulateStep returned a result
C28_Produced == call.fn = "store.simulateStep" /\ ~ret.thrown

\* the results that preceded the record
C28_Preceding == call.args[2]

\* the belief update of the claim, from the recorded choices alone: the share
\* of the preceding results in which the player chose the strategy, and 1/n for
\* each of the player's n strategies when nothing precedes
C28_Update(player, strategy, choices) ==
    IF Len(choices) = 0 THEN <<1, Len(player.strategies)>>
    ELSE <<Cardinality({k \in 1..Len(choices) : choices[k][player.id] = strategy}),
           Len(choices)>>

\* C28: the beliefs stored in a record that a tick of an incomplete-information
\* model appends are the belief update of the results that preceded the record,
\* uniform for the first record; they are determined by the choices recorded
\* in those results, whatever beliefs those results store
C28_BeliefsFromHistory ==
    C28_Produced =>
        LET choices == [k \in 1..Len(C28_Preceding) |-> C28_Preceding[k].playerChoices]
        IN  /\ DOMAIN ret.result.beliefs = {gm.players[i].id : i \in 1..Len(gm.players)}
            /\ \A i \in 1..Len(gm.players) :
                  /\ DOMAIN ret.result.beliefs[gm.players[i].id] = StrategySet(gm.players[i])
                  /\ \A strategy \in StrategySet(gm.players[i]) :
                        LET stored == ret.result.beliefs[gm.players[i].id][strategy]
                            update == C28_Update(gm.players[i], strategy, choices)
                        IN  /\ stored[2] > 0
                            /\ stored[1] * update[2] = update[1] * stored[2]

\* a record whose beliefs differ from those of the record before it, after a
\* history in which some strategy was never chosen
C28_Witness ==
    /\ C28_Produced
    /\ Len(C28_Preceding) >= 3
    /\ ret.result.beliefs # C28_Preceding[Len(C28_Preceding)].beliefs
    /\ \E i \in 1..Len(gm.players) : \E strategy \in StrategySet(gm.players[i]) :
          ret.result.beliefs[gm.players[i].id][strategy][1] = 0


----------------------------------------------------------------------------
(* Smoothing and the history window of the belief updates: claim C29 *)

\* a belief update was called with a non-empty history
C29_CalledWithHistory == call.fn # "none" /\ Len(call.history) > 0

\* the update that was called, applied to another history
C29_Again(history) ==
    CASE call.fn = "utils.updateEntryDeterrenceBeliefs" -> updateEntryDeterrenceBeliefs(gm, history)
      [] call.fn = "utils.updateSignalingBeliefs" -> updateSignalingBeliefs(gm, history)
      [] call.fn = "store.updateEntryDeterrenceBeliefs" ->
            updateEntryDeterrenceBeliefs_store(gm, history)
      [] call.fn = "store.updateSignalingBeliefs" -> updateSignalingBeliefs_store(gm, history)

\* two belief tables hold the same probabilities
C29_SameBeliefs(a, b) ==
    /\ DOMAIN a = DOMAIN b
    /\ \A id \in DOMAIN a :
          /\ DOMAIN a[id] = DOMAIN b[id]
          /\ \A strategy \in DOMAIN a[id] :
                a[id][strategy][1] * b[id][strategy][2] = b[id][strategy][1] * a[id][strategy][2]

\* every strategy of every player has a probability above 0
C29_AllPositive(b) ==
    \A id \in DOMAIN b : \A strategy \in DOMAIN b[id] :
        b[id][strategy][1] > 0 /\ b[id][strategy][2] > 0

\* C29 as stated: with a non-empty history the belief update gives every
\* strategy of every player a probability above 0, and it returns what it
\* returns for the 5 most recent results alone
C29_SmoothedOverLastFive ==
    C29_CalledWithHistory =>
        /\ C29_AllPositive(ret.b)
        /\ C29_SameBeliefs(ret.b, C29_Again(SliceLast(call.history, 5)))


----------------------------------------------------------------------------
(* The incumbent's fixed choice in entry-deterrence-complete: claim C30 *)

\* a tick has recorded a result of the entry-deterrence-complete model
C30_Recorded ==
    /\ selectedModelId = "entry-deterrence-complete"
    /\ Len(results) > 0

\* the incumbent's payoff in the matrix entry of a profile
C30_IncumbentPayoff(own, other) == EntryDeterrenceComplete.payoffMatrix[<<own, other>>][1]

\* the incumbent's first strategy pays strictly more than its second against
\* each strategy of the entrant
C30_FirstDominates ==
    \A other \in StrategySet(EntryDeterrenceComplete.players[2]) :
        C30_IncumbentPayoff(EntryDeterrenceComplete.players[1].strategies[1], other)
           > C30_IncumbentPayoff(EntryDeterrenceComplete.players[1].strategies[2], other)

\* every recorded outcome is (first strategy of the incumbent, second strategy
\* of the entrant)
C30_FixedOutcome ==
    \A k \in 1..Len(results) :
        /\ results[k].playerChoices["1"] = EntryDeterrenceComplete.players[1].strategies[1]
        /\ results[k].playerChoices["2"] = EntryDeterrenceComplete.players[2].strategies[2]

\* at the last recorded outcome no other strategy of the incumbent pays it
\* strictly more, the entrant's choice held fixed
C30_NoBetterDeviation ==
    LET last == results[Len(results)]
    IN  \A own \in StrategySet(EntryDeterrenceComplete.players[1]) :
            C30_IncumbentPayoff(own, last.playerChoices["2"])
               <= C30_IncumbentPayoff(last.playerChoices["1"], last.playerChoices["2"])

\* C30 as stated: in the classic entry-deterrence-complete model the
\* incumbent's strategy of index 0 is dominant, every tick records the outcome
\* (index 0 of the incumbent, index 1 of the entrant), and from that outcome
\* the incumbent has no strictly better unilateral deviation
C30_InvestIsDominant ==
    C30_Recorded => (C30_FirstDominates /\ C30_FixedOutcome /\ C30_NoBetterDeviation)

====
